---- MODULE Spec2Model ----
(***************************************************************************)
(* Model of the CactusCash financial calculator: the pure formulas of      *)
(* utils/calculations.js, the configuration singleton of                   *)
(* config/calculator-config.loader.ts and the projection loop              *)
(* (calculateProjection / generateSummary) of the calculator component.    *)
(*                                                                         *)
(* Number representation.  The program computes in IEEE doubles; the model *)
(* computes in fixed point:                                                 *)
(*   - money is an integer number of cents;                                 *)
(*   - hourly rates are integers in 1/10000 dollar;                         *)
(*   - percentages entered in the form are whole percents;                  *)
(*   - fractional configuration rates are scaled integers (see the tables). *)
(* Every product that leaves the grid is rounded to the nearest unit.       *)
(***************************************************************************)
EXTENDS Integers, Sequences, FiniteSets, TLC

(* ------------------------------------------------------------------ *)
(* Bounds of the model                                                 *)
(* ------------------------------------------------------------------ *)

\* longest projection explored: endAge ranges up to FirstAge + MaxYears
MaxYears == 3

\* half-width of the window of hours explored around each step threshold
HoursWindow == 4

\* half-width, in cents, of the window of incomes explored around each
\* percentage of the federal poverty level
IncomeWindow == 1

\* number of 5,000-dollar steps of yearly earnings explored
EarningsSteps == 20

\* longest text typed into a form field, in characters
MaxTyped == 3

\* render passes after one edit before the exploration stops counting
MaxPasses == 4

(* ------------------------------------------------------------------ *)
(* Fixed-point helpers                                                 *)
(* ------------------------------------------------------------------ *)

Max(a, b) == IF a >= b THEN a ELSE b
Min(a, b) == IF a <= b THEN a ELSE b
Abs(a) == IF a >= 0 THEN a ELSE -a

\* n / d rounded to the nearest integer, halves away from zero (d > 0)
RoundDiv(n, d) ==
    IF n >= 0 THEN (2 * n + d) \div (2 * d)
    ELSE -((2 * (-n) + d) \div (2 * d))

\* a * b / c rounded to the nearest integer, without forming a * b
\* (a >= 0, b >= 0, c > 0)
MulDiv(a, b, c) == (a \div c) * b + RoundDiv((a % c) * b, c)

\* x * (1 + p/100)
GrowPct(x, p) == MulDiv(x, 100 + p, 100)

\* x * Math.pow(1 + p/100, n)
RECURSIVE CompoundPct(_, _, _)
CompoundPct(x, p, n) ==
    IF n <= 0 THEN x ELSE GrowPct(CompoundPct(x, p, n - 1), p)

\* Number.prototype.toFixed(0) of an amount in cents: whole dollars
ToFixed0(cents) == RoundDiv(cents, 100)

\* Number.prototype.toFixed(2) of an hourly rate in 1/10000 dollar: cents
ToFixed2(rate) == RoundDiv(rate, 100)

\* Number.prototype.toLocaleString() of a non-negative integer: the
\* groups of three digits, most significant first ("9,695" is <<9, 695>>)
RECURSIVE ToLocaleString(_)
ToLocaleString(n) ==
    IF n < 1000 THEN <<n>> ELSE Append(ToLocaleString(n \div 1000), n % 1000)

(* ------------------------------------------------------------------ *)
(* Configuration tables                                                *)
(* ------------------------------------------------------------------ *)

\* governmentRates of createMinimalConfig (the unit tests mock the same
\* numbers).  Money in cents, subsidy rates in 1/100000, quarterMultiplier
\* in tenths, durationMultiplier in hundredths.
GovernmentRates ==
    [ aca |->
        [ federalPovertyLevel |-> 1506000,
          benchmarkPremiumMonthly |-> 45000,
          subsidyRates |-> [t \in {150, 200, 250, 300, 400} |->
                              CASE t = 150 -> 2850
                                [] t = 200 -> 5700
                                [] t = 250 -> 8550
                                [] t = 300 -> 11400
                                [] t = 400 -> 9500],
          incomeThresholds |-> [minimumPercent |-> 100, maximumPercent |-> 400] ],
      unemployment |->
        [ minimumEarnings |-> 530000,
          quarterMultiplier |-> 15,
          weeklyBenefitDeduction |-> 5,
          weeksPerQuarter |-> 26,
          maxWeeklyBenefit |-> 777,
          durationMultiplier |-> 27,
          minDurationWeeks |-> 10,
          maxDurationWeeks |-> 26 ] ]

\* payScale.stepThresholds, the same in every configuration of the repository
StepThresholds ==
    <<699, 1399, 2099, 3499, 4899, 6299, 7699, 9099, 10499, 11899, 13299,
      14699, 99999>>

\* payScale of createMinimalConfig: zero rates, no raise
MinimalPayScale ==
    [ stepRates |-> [s \in 1..13 |-> 0],
      stepThresholds |-> StepThresholds,
      annualRaiseRate |-> 0 ]

\* payScale of the populated configuration, as the unit tests mock it:
\* rates in 1/10000 dollar, annualRaiseRate 0.04 as a whole percent
PopulatedPayScale ==
    [ stepRates |-> <<200000, 220000, 240000, 260000, 274500, 285000, 295000,
                      305000, 315000, 325000, 335000, 345000, 355000>>,
      stepThresholds |-> StepThresholds,
      annualRaiseRate |-> 4 ]

\* businessRules of createMinimalConfig: contributionRate as a whole percent
MinimalBusinessRules ==
    [ pto |-> [hoursPerPTOHour |-> 30],
      retirement |-> [contributionRate |-> 0],
      calculations |-> [maxCareerHours |-> 14700, displayOverflow |-> "----"] ]

\* businessRules of the populated configuration, as the component tests mock it
PopulatedBusinessRules ==
    [ pto |-> [hoursPerPTOHour |-> 30],
      retirement |-> [contributionRate |-> 3],
      calculations |-> [maxCareerHours |-> 14700, displayOverflow |-> "----"] ]

(* ------------------------------------------------------------------ *)
(* State                                                               *)
(* ------------------------------------------------------------------ *)

VARIABLES
    formData,          \* React state formData: the input record
    configSource,      \* CalculatorConfigLoader.configSource
    mainConfigLoad,    \* state of the promise of loadMainConfigAsync
    pc,                \* position of the calculator component
    age,               \* loop variable of calculateProjection
    rows,              \* the local array `results` of calculateProjection
    currentCash,       \* locals of calculateProjection, in cents
    currentTaxable,
    currentRetirement,
    cashDepleted,
    taxableDepleted,
    priorYearW2,
    priorYearIncome,
    results,           \* React state results: the rows on display
    summary,           \* React state summary
    resultsOf,         \* history: the inputs and configuration `results` came from
    calc,              \* last direct call of a formula of utils/calculations.js
    config,            \* CalculatorConfigLoader.config: which configuration it is
    loaderPc,          \* position of the constructor of the singleton
    currentView,       \* React state currentView of App
    rawFormData,       \* the expense fields of formData, as typed
    expenseTotals,     \* formData.essentialMonthly / nonEssentialMonthly
    lastExpenseValues, \* the ref lastExpenseValues.current
    renderPending,     \* a state update waits for its render and effects pass
    cascade            \* history: passes since the last user event

vars ==
    << formData, configSource, mainConfigLoad, pc, age, rows, currentCash,
       currentTaxable, currentRetirement, cashDepleted, taxableDepleted,
       priorYearW2, priorYearIncome, results, summary, resultsOf, calc,
       config, loaderPc, currentView, rawFormData, expenseTotals,
       lastExpenseValues, renderPending, cascade >>

runVars ==
    << age, rows, currentCash, currentTaxable, currentRetirement, cashDepleted,
       taxableDepleted, priorYearW2, priorYearIncome >>

\* the state of the expense form and of the render cycle
uiVars ==
    << currentView, rawFormData, expenseTotals, lastExpenseValues, renderPending,
       cascade >>

\* what the projection and the direct calls of the formulas leave alone
shellVars == << config, loaderPc, uiVars >>

None == [none |-> TRUE]

NoCall == [fn |-> "none", args |-> <<>>, result |-> 0]

\* a form without expense fields: currentExpenses is entered directly
NoExpenseFields == << >>

NoExpenseTotals == [essentialMonthly |-> 0, nonEssentialMonthly |-> 0]

(* ------------------------------------------------------------------ *)
(* Configuration singleton                                             *)
(* ------------------------------------------------------------------ *)

\* the rate tables of the configuration a source stands for: the minimal
\* configuration is built in the loader, the example and main configurations
\* are the populated JSON files
RateTablesOf(source) ==
    IF source = "minimal"
    THEN [ payScale |-> MinimalPayScale,
           governmentRates |-> GovernmentRates,
           businessRules |-> MinimalBusinessRules ]
    ELSE [ payScale |-> PopulatedPayScale,
           governmentRates |-> GovernmentRates,
           businessRules |-> PopulatedBusinessRules ]

getPayScale == RateTablesOf(configSource).payScale

getGovernmentRates == RateTablesOf(configSource).governmentRates

getBusinessRules == RateTablesOf(configSource).businessRules

(* ------------------------------------------------------------------ *)
(* utils/calculations.js                                               *)
(* ------------------------------------------------------------------ *)

\* the scan of determineStep from a given step on, with a strict comparison:
\* hours equal to a threshold fall into the next step
RECURSIVE determineStepScanStrict(_, _, _)
determineStepScanStrict(rrchHours, thresholds, step) ==
    IF step > 13 THEN 13
    ELSE IF rrchHours < thresholds[step] THEN step
    ELSE determineStepScanStrict(rrchHours, thresholds, step + 1)

\* for (step = 1; step <= 13; step++) if (rrchHours <= thresholds[step]) return step
RECURSIVE determineStepScan(_, _, _)
determineStepScan(rrchHours, thresholds, step) ==
    IF step > 13 THEN 13
    ELSE IF rrchHours <= thresholds[step] THEN step
    ELSE determineStepScan(rrchHours, thresholds, step + 1)

determineStep(rrchHours) ==
    determineStepScan(rrchHours, getPayScale.stepThresholds, 1)

\* the raise added once per year on the base rate instead of compounded
calculateHourlyRateSimpleRaise(rrchHours, yearsFromBase) ==
    LET payScale == getPayScale
        step == determineStep(rrchHours)
        baseRate == payScale.stepRates[step]
    IN  baseRate + MulDiv(baseRate, payScale.annualRaiseRate * yearsFromBase, 100)

\* stepRates[step] * Math.pow(1 + annualRaiseRate, yearsFromBase), in 1/10000 dollar
calculateHourlyRate(rrchHours, yearsFromBase) ==
    LET payScale == getPayScale
        step == determineStep(rrchHours)
        baseRate == payScale.stepRates[step]
    IN  CompoundPct(baseRate, payScale.annualRaiseRate, yearsFromBase)

\* the subsidy with the lower income threshold shut out of the eligible range
calculateACASubsidyOpenFloor(afterTaxIncome) ==
    LET aca == getGovernmentRates.aca
        fpl == aca.federalPovertyLevel
        benchmarkPremiumAnnual == aca.benchmarkPremiumMonthly * 12
        PctLeq(t) == afterTaxIncome * 100 <= t * fpl
        sliding == aca.subsidyRates[300]
                     - MulDiv(afterTaxIncome * 100 - 300 * fpl, 19, fpl)
        applicablePercentage ==
            IF PctLeq(150) THEN aca.subsidyRates[150]
            ELSE IF PctLeq(200) THEN aca.subsidyRates[200]
            ELSE IF PctLeq(250) THEN aca.subsidyRates[250]
            ELSE IF PctLeq(300) THEN aca.subsidyRates[300]
            ELSE sliding
        expectedContribution == MulDiv(afterTaxIncome, applicablePercentage, 100000)
    IN  IF PctLeq(aca.incomeThresholds.minimumPercent)
           \/ ~PctLeq(aca.incomeThresholds.maximumPercent)
        THEN 0
        ELSE Max(0, benchmarkPremiumAnnual - expectedContribution)

\* the subsidy with every tier bound exclusive
calculateACASubsidyExclusiveTiers(afterTaxIncome) ==
    LET aca == getGovernmentRates.aca
        fpl == aca.federalPovertyLevel
        benchmarkPremiumAnnual == aca.benchmarkPremiumMonthly * 12
        PctLess(t) == afterTaxIncome * 100 < t * fpl
        PctLeq(t) == afterTaxIncome * 100 <= t * fpl
        sliding == aca.subsidyRates[300]
                     - MulDiv(afterTaxIncome * 100 - 300 * fpl, 19, fpl)
        applicablePercentage ==
            IF PctLess(150) THEN aca.subsidyRates[150]
            ELSE IF PctLess(200) THEN aca.subsidyRates[200]
            ELSE IF PctLess(250) THEN aca.subsidyRates[250]
            ELSE IF PctLess(300) THEN aca.subsidyRates[300]
            ELSE sliding
        expectedContribution == MulDiv(afterTaxIncome, applicablePercentage, 100000)
    IN  IF PctLess(aca.incomeThresholds.minimumPercent)
           \/ ~PctLeq(aca.incomeThresholds.maximumPercent)
        THEN 0
        ELSE Max(0, benchmarkPremiumAnnual - expectedContribution)

\* afterTaxIncome in cents; the result is in cents
calculateACASubsidy(afterTaxIncome) ==
    LET aca == getGovernmentRates.aca
        fpl == aca.federalPovertyLevel
        benchmarkPremiumAnnual == aca.benchmarkPremiumMonthly * 12
        \* incomePercentFPL < t  and  incomePercentFPL <= t, cross-multiplied
        PctLess(t) == afterTaxIncome * 100 < t * fpl
        PctLeq(t) == afterTaxIncome * 100 <= t * fpl
        \* rate[300] - ((pct - 300) / 100) * 0.019, in 1/100000
        sliding == aca.subsidyRates[300]
                     - MulDiv(afterTaxIncome * 100 - 300 * fpl, 19, fpl)
        applicablePercentage ==
            IF PctLeq(150) THEN aca.subsidyRates[150]
            ELSE IF PctLeq(200) THEN aca.subsidyRates[200]
            ELSE IF PctLeq(250) THEN aca.subsidyRates[250]
            ELSE IF PctLeq(300) THEN aca.subsidyRates[300]
            ELSE sliding
        expectedContribution == MulDiv(afterTaxIncome, applicablePercentage, 100000)
    IN  IF PctLess(aca.incomeThresholds.minimumPercent)
           \/ ~PctLeq(aca.incomeThresholds.maximumPercent)
        THEN 0
        ELSE Max(0, benchmarkPremiumAnnual - expectedContribution)

\* the benefit without the cap on the weekly amount
calculateUnemploymentBenefitsUncapped(currentYearW2, priorYearW2Arg) ==
    LET rules == getGovernmentRates.unemployment
        totalBasePeriodEarnings == currentYearW2 + priorYearW2Arg
        highestYear == Max(currentYearW2, priorYearW2Arg)
        rounded == ((highestYear + 2 * rules.weeksPerQuarter * 100)
                      \div (4 * rules.weeksPerQuarter * 100))
                   - rules.weeklyBenefitDeduction
        weeklyBenefit == rounded
        floorWeeks == (totalBasePeriodEarnings * rules.durationMultiplier)
                        \div (100 * 100 * weeklyBenefit)
        durationWeeks == Max(rules.minDurationWeeks,
                             Min(rules.maxDurationWeeks, floorWeeks))
    IN  IF totalBasePeriodEarnings < rules.minimumEarnings
           \/ 40 * totalBasePeriodEarnings < highestYear * rules.quarterMultiplier
        THEN 0
        ELSE IF weeklyBenefit <= 0 THEN 0
        ELSE weeklyBenefit * durationWeeks * 100

\* the benefit without the upper clamp on the weeks paid
calculateUnemploymentBenefitsOpenDuration(currentYearW2, priorYearW2Arg) ==
    LET rules == getGovernmentRates.unemployment
        totalBasePeriodEarnings == currentYearW2 + priorYearW2Arg
        highestYear == Max(currentYearW2, priorYearW2Arg)
        rounded == ((highestYear + 2 * rules.weeksPerQuarter * 100)
                      \div (4 * rules.weeksPerQuarter * 100))
                   - rules.weeklyBenefitDeduction
        weeklyBenefit == Min(rounded, rules.maxWeeklyBenefit)
        floorWeeks == (totalBasePeriodEarnings * rules.durationMultiplier)
                        \div (100 * 100 * weeklyBenefit)
        durationWeeks == Max(rules.minDurationWeeks, floorWeeks)
    IN  IF totalBasePeriodEarnings < rules.minimumEarnings
           \/ 40 * totalBasePeriodEarnings < highestYear * rules.quarterMultiplier
        THEN 0
        ELSE IF weeklyBenefit <= 0 THEN 0
        ELSE weeklyBenefit * durationWeeks * 100

\* the benefit without the minimum-earnings test
calculateUnemploymentBenefitsNoMinimum(currentYearW2, priorYearW2Arg) ==
    LET rules == getGovernmentRates.unemployment
        totalBasePeriodEarnings == currentYearW2 + priorYearW2Arg
        highestYear == Max(currentYearW2, priorYearW2Arg)
        rounded == ((highestYear + 2 * rules.weeksPerQuarter * 100)
                      \div (4 * rules.weeksPerQuarter * 100))
                   - rules.weeklyBenefitDeduction
        weeklyBenefit == Min(rounded, rules.maxWeeklyBenefit)
        floorWeeks == (totalBasePeriodEarnings * rules.durationMultiplier)
                        \div (100 * 100 * weeklyBenefit)
        durationWeeks == Max(rules.minDurationWeeks,
                             Min(rules.maxDurationWeeks, floorWeeks))
    IN  IF 40 * totalBasePeriodEarnings < highestYear * rules.quarterMultiplier
        THEN 0
        ELSE IF weeklyBenefit <= 0 THEN 0
        ELSE weeklyBenefit * durationWeeks * 100

\* the benefit with a whole year's earnings taken for the highest quarter
\* in the second eligibility test
calculateUnemploymentBenefitsYearAsQuarter(currentYearW2, priorYearW2Arg) ==
    LET rules == getGovernmentRates.unemployment
        totalBasePeriodEarnings == currentYearW2 + priorYearW2Arg
        highestYear == Max(currentYearW2, priorYearW2Arg)
        rounded == ((highestYear + 2 * rules.weeksPerQuarter * 100)
                      \div (4 * rules.weeksPerQuarter * 100))
                   - rules.weeklyBenefitDeduction
        weeklyBenefit == Min(rounded, rules.maxWeeklyBenefit)
        floorWeeks == (totalBasePeriodEarnings * rules.durationMultiplier)
                        \div (100 * 100 * weeklyBenefit)
        durationWeeks == Max(rules.minDurationWeeks,
                             Min(rules.maxDurationWeeks, floorWeeks))
    IN  IF totalBasePeriodEarnings < rules.minimumEarnings
           \/ 10 * totalBasePeriodEarnings < highestYear * rules.quarterMultiplier
        THEN 0
        ELSE IF weeklyBenefit <= 0 THEN 0
        ELSE weeklyBenefit * durationWeeks * 100

\* earnings in cents; the result is in cents
calculateUnemploymentBenefits(currentYearW2, priorYearW2Arg) ==
    LET rules == getGovernmentRates.unemployment
        totalBasePeriodEarnings == currentYearW2 + priorYearW2Arg
        \* four times highestQuarterEarnings
        highestYear == Max(currentYearW2, priorYearW2Arg)
        \* Math.round(highestQuarterEarnings / weeksPerQuarter - deduction), dollars
        rounded == ((highestYear + 2 * rules.weeksPerQuarter * 100)
                      \div (4 * rules.weeksPerQuarter * 100))
                   - rules.weeklyBenefitDeduction
        weeklyBenefit == Min(rounded, rules.maxWeeklyBenefit)
        floorWeeks == (totalBasePeriodEarnings * rules.durationMultiplier)
                        \div (100 * 100 * weeklyBenefit)
        durationWeeks == Max(rules.minDurationWeeks,
                             Min(rules.maxDurationWeeks, floorWeeks))
    IN  IF totalBasePeriodEarnings < rules.minimumEarnings
           \/ 40 * totalBasePeriodEarnings < highestYear * rules.quarterMultiplier
        THEN 0
        ELSE IF weeklyBenefit <= 0 THEN 0
        ELSE weeklyBenefit * durationWeeks * 100

\* the payout with the accrued hours rounded to the nearest hour
calculatePTOPayoutRounded(annualHours, hourlyRate) ==
    LET ptoHours == RoundDiv(annualHours, getBusinessRules.pto.hoursPerPTOHour)
    IN  RoundDiv(ptoHours * hourlyRate, 100)

\* hourlyRate in 1/10000 dollar; the result is in cents
calculatePTOPayout(annualHours, hourlyRate) ==
    LET ptoHours == annualHours \div getBusinessRules.pto.hoursPerPTOHour
    IN  RoundDiv(ptoHours * hourlyRate, 100)

\* the catch branch with the hours of a 40-hour week as the divisor
calculatePTOPayoutFallbackWeekly(annualHours, hourlyRate) ==
    LET ptoHours == annualHours \div 40
    IN  RoundDiv(ptoHours * hourlyRate, 100)

\* the catch branch of calculatePTOPayout, taken when getBusinessRules throws
calculatePTOPayoutFallback(annualHours, hourlyRate) ==
    LET ptoHours == annualHours \div 30
    IN  RoundDiv(ptoHours * hourlyRate, 100)

(* ------------------------------------------------------------------ *)
(* calculateProjection: one simulated year                             *)
(* ------------------------------------------------------------------ *)

\* form fields hold whole dollars; the loop works in cents
Cents(dollars) == dollars * 100

\* the year's figures with the subsidy taken on the year's own income
YearFiguresSameYearSubsidy(fd, yearAge, priorW2, priorIncome) ==
    LET yearsWorked == yearAge - fd.currentAge
        rrchHours == fd.startingCareerHours + yearsWorked * fd.annualHours
        step == determineStep(rrchHours)
        hourlyRate == calculateHourlyRate(rrchHours, yearsWorked)
        seasonalW2 == RoundDiv(hourlyRate * fd.annualHours, 100)
        ptoPayout == calculatePTOPayout(fd.annualHours, hourlyRate)
        businessRules == getBusinessRules
        unemploymentBenefits == calculateUnemploymentBenefits(seasonalW2, priorW2)
        profitShare ==
            IF yearAge = fd.currentAge THEN Cents(fd.startingProfitSharing)
            ELSE MulDiv(priorW2, fd.profitSharingPercent, 100)
        contribution401k ==
            MulDiv(profitShare, businessRules.retirement.contributionRate, 100)
        totalWorkIncome == seasonalW2 + profitShare + ptoPayout
        totalGrossIncome ==
            totalWorkIncome + Cents(fd.otherIncome) + unemploymentBenefits
        afterTaxIncome == MulDiv(totalGrossIncome, 100 - fd.taxRate, 100)
        acaTaxRefund ==
            IF yearAge > fd.currentAge THEN calculateACASubsidy(afterTaxIncome) ELSE 0
        partnerAnnualIncome == Cents(fd.partnerIncome) * 12
        totalHouseholdIncome == afterTaxIncome + partnerAnnualIncome + acaTaxRefund
        annualExpenses ==
            CompoundPct(Cents(fd.currentExpenses), fd.expenseInflation, yearsWorked)
        shortfall == annualExpenses - totalHouseholdIncome
    IN  [ yearsWorked |-> yearsWorked, rrchHours |-> rrchHours, step |-> step,
          hourlyRate |-> hourlyRate, seasonalW2 |-> seasonalW2,
          ptoPayout |-> ptoPayout, unemploymentBenefits |-> unemploymentBenefits,
          profitShare |-> profitShare, contribution401k |-> contribution401k,
          totalWorkIncome |-> totalWorkIncome,
          totalGrossIncome |-> totalGrossIncome,
          afterTaxIncome |-> afterTaxIncome, acaTaxRefund |-> acaTaxRefund,
          partnerAnnualIncome |-> partnerAnnualIncome,
          annualExpenses |-> annualExpenses, shortfall |-> shortfall ]

\* the income side of one loop iteration (everything up to `shortfall`)
YearFigures(fd, yearAge, priorW2, priorIncome) ==
    LET yearsWorked == yearAge - fd.currentAge
        rrchHours == fd.startingCareerHours + yearsWorked * fd.annualHours
        step == determineStep(rrchHours)
        hourlyRate == calculateHourlyRate(rrchHours, yearsWorked)
        seasonalW2 == RoundDiv(hourlyRate * fd.annualHours, 100)
        ptoPayout == calculatePTOPayout(fd.annualHours, hourlyRate)
        businessRules == getBusinessRules
        unemploymentBenefits == calculateUnemploymentBenefits(seasonalW2, priorW2)
        profitShare ==
            IF yearAge = fd.currentAge THEN Cents(fd.startingProfitSharing)
            ELSE MulDiv(priorW2, fd.profitSharingPercent, 100)
        contribution401k ==
            MulDiv(profitShare, businessRules.retirement.contributionRate, 100)
        totalWorkIncome == seasonalW2 + profitShare + ptoPayout
        totalGrossIncome ==
            totalWorkIncome + Cents(fd.otherIncome) + unemploymentBenefits
        afterTaxIncome == MulDiv(totalGrossIncome, 100 - fd.taxRate, 100)
        acaTaxRefund ==
            IF yearAge > fd.currentAge THEN calculateACASubsidy(priorIncome) ELSE 0
        partnerAnnualIncome == Cents(fd.partnerIncome) * 12
        totalHouseholdIncome == afterTaxIncome + partnerAnnualIncome + acaTaxRefund
        annualExpenses ==
            CompoundPct(Cents(fd.currentExpenses), fd.expenseInflation, yearsWorked)
        shortfall == annualExpenses - totalHouseholdIncome
    IN  [ yearsWorked |-> yearsWorked, rrchHours |-> rrchHours, step |-> step,
          hourlyRate |-> hourlyRate, seasonalW2 |-> seasonalW2,
          ptoPayout |-> ptoPayout, unemploymentBenefits |-> unemploymentBenefits,
          profitShare |-> profitShare, contribution401k |-> contribution401k,
          totalWorkIncome |-> totalWorkIncome,
          totalGrossIncome |-> totalGrossIncome,
          afterTaxIncome |-> afterTaxIncome, acaTaxRefund |-> acaTaxRefund,
          partnerAnnualIncome |-> partnerAnnualIncome,
          annualExpenses |-> annualExpenses, shortfall |-> shortfall ]

\* the cash bucket with a depleted account reopened by a surplus
CashAfterRefill(cash, depleted, shortfall, cashReturn) ==
    IF depleted
    THEN IF shortfall < 0
         THEN [balance |-> cash + Abs(shortfall), depleted |-> FALSE]
         ELSE [balance |-> cash, depleted |-> TRUE]
    ELSE LET grown == GrowPct(cash, cashReturn)
         IN  IF shortfall > 0
             THEN IF grown >= shortfall
                  THEN [balance |-> grown - shortfall, depleted |-> FALSE]
                  ELSE [balance |-> 0, depleted |-> TRUE]
             ELSE [balance |-> grown + Abs(shortfall), depleted |-> FALSE]

\* the cash bucket with the shortfall settled before the year's growth
CashAfterGrowsLast(cash, depleted, shortfall, cashReturn) ==
    IF depleted THEN [balance |-> cash, depleted |-> TRUE]
    ELSE IF shortfall > 0
         THEN IF cash >= shortfall
              THEN [balance |-> GrowPct(cash - shortfall, cashReturn),
                    depleted |-> FALSE]
              ELSE [balance |-> 0, depleted |-> TRUE]
         ELSE [balance |-> GrowPct(cash + Abs(shortfall), cashReturn),
               depleted |-> FALSE]

\* if (!cashDepleted) { ... }: the cash bucket of one year
CashAfter(cash, depleted, shortfall, cashReturn) ==
    IF depleted THEN [balance |-> cash, depleted |-> TRUE]
    ELSE LET grown == GrowPct(cash, cashReturn)
         IN  IF shortfall > 0
             THEN IF grown >= shortfall
                  THEN [balance |-> grown - shortfall, depleted |-> FALSE]
                  ELSE [balance |-> 0, depleted |-> TRUE]
             ELSE [balance |-> grown + Abs(shortfall), depleted |-> FALSE]

\* the taxable bucket drawing the shortfall before the year's growth
TaxableAfterDrawFirst(taxable, cashIsDepleted, depleted, shortfall, investmentReturn) ==
    IF cashIsDepleted /\ ~depleted
    THEN IF shortfall > 0
         THEN IF taxable >= shortfall
              THEN [balance |-> GrowPct(taxable - shortfall, investmentReturn),
                    depleted |-> FALSE]
              ELSE [balance |-> 0, depleted |-> TRUE]
         ELSE [balance |-> GrowPct(taxable, investmentReturn), depleted |-> FALSE]
    ELSE IF ~cashIsDepleted
    THEN [balance |-> GrowPct(taxable, investmentReturn), depleted |-> depleted]
    ELSE [balance |-> taxable, depleted |-> depleted]

\* the taxable bucket banking a surplus once cash is depleted
TaxableAfterBanksSurplus(taxable, cashIsDepleted, depleted, shortfall, investmentReturn) ==
    IF cashIsDepleted /\ ~depleted
    THEN LET grown == GrowPct(taxable, investmentReturn)
         IN  IF shortfall > 0
             THEN IF grown >= shortfall
                  THEN [balance |-> grown - shortfall, depleted |-> FALSE]
                  ELSE [balance |-> 0, depleted |-> TRUE]
             ELSE [balance |-> grown + Abs(shortfall), depleted |-> FALSE]
    ELSE IF ~cashIsDepleted
    THEN [balance |-> GrowPct(taxable, investmentReturn), depleted |-> depleted]
    ELSE [balance |-> taxable, depleted |-> depleted]

\* the taxable bucket banking a surplus after its own depletion
TaxableAfterReopens(taxable, cashIsDepleted, depleted, shortfall, investmentReturn) ==
    IF cashIsDepleted /\ ~depleted
    THEN LET grown == GrowPct(taxable, investmentReturn)
         IN  IF shortfall > 0
             THEN IF grown >= shortfall
                  THEN [balance |-> grown - shortfall, depleted |-> FALSE]
                  ELSE [balance |-> 0, depleted |-> TRUE]
             ELSE [balance |-> grown, depleted |-> FALSE]
    ELSE IF ~cashIsDepleted
    THEN [balance |-> GrowPct(taxable, investmentReturn), depleted |-> depleted]
    ELSE [balance |-> taxable + Max(0, -shortfall), depleted |-> depleted]

\* the taxable bucket sharing the shortfall while cash is still active
TaxableAfterSharesShortfall(taxable, cashIsDepleted, depleted, shortfall, investmentReturn) ==
    IF cashIsDepleted /\ ~depleted
    THEN LET grown == GrowPct(taxable, investmentReturn)
         IN  IF shortfall > 0
             THEN IF grown >= shortfall
                  THEN [balance |-> grown - shortfall, depleted |-> FALSE]
                  ELSE [balance |-> 0, depleted |-> TRUE]
             ELSE [balance |-> grown, depleted |-> FALSE]
    ELSE IF ~cashIsDepleted
    THEN [balance |-> Max(0, GrowPct(taxable, investmentReturn) - Max(0, shortfall)),
          depleted |-> depleted]
    ELSE [balance |-> taxable, depleted |-> depleted]

\* the taxable bucket charged a shortfall it cannot cover
TaxableAfterOverdraws(taxable, cashIsDepleted, depleted, shortfall, investmentReturn) ==
    IF cashIsDepleted /\ ~depleted
    THEN LET grown == GrowPct(taxable, investmentReturn)
         IN  IF shortfall > 0
             THEN [balance |-> grown - shortfall, depleted |-> grown < shortfall]
             ELSE [balance |-> grown, depleted |-> FALSE]
    ELSE IF ~cashIsDepleted
    THEN [balance |-> GrowPct(taxable, investmentReturn), depleted |-> depleted]
    ELSE [balance |-> taxable, depleted |-> depleted]

\* if (cashDepleted && !taxableDepleted) { ... } else if (!cashDepleted) { ... }
\* cashIsDepleted is the flag as the cash bucket of the same year left it
TaxableAfter(taxable, cashIsDepleted, depleted, shortfall, investmentReturn) ==
    IF cashIsDepleted /\ ~depleted
    THEN LET grown == GrowPct(taxable, investmentReturn)
         IN  IF shortfall > 0
             THEN IF grown >= shortfall
                  THEN [balance |-> grown - shortfall, depleted |-> FALSE]
                  ELSE [balance |-> 0, depleted |-> TRUE]
             ELSE [balance |-> grown, depleted |-> FALSE]
    ELSE IF ~cashIsDepleted
    THEN [balance |-> GrowPct(taxable, investmentReturn), depleted |-> depleted]
    ELSE [balance |-> taxable, depleted |-> depleted]

\* the contribution added before the growth is applied
RetirementAfterContributionFirst(retirement, investmentReturn, contribution401k) ==
    GrowPct(retirement + contribution401k, investmentReturn)

\* currentRetirement * (1 + investmentReturn/100) + contribution401k
RetirementAfter(retirement, investmentReturn, contribution401k) ==
    GrowPct(retirement, investmentReturn) + contribution401k

\* the object pushed onto the local array `results`
ProjectionRow(yearAge, y, cash, taxable, retirement, otherIncome) ==
    LET businessRules == getBusinessRules
    IN  [ age |-> yearAge,
          rrchHours |->
              IF y.rrchHours > businessRules.calculations.maxCareerHours
              THEN <<businessRules.calculations.displayOverflow>>
              ELSE ToLocaleString(y.rrchHours),
          step |-> y.step,
          hourlyRate |-> ToFixed2(y.hourlyRate),
          seasonalW2 |-> ToFixed0(y.seasonalW2),
          otherIncome |-> ToFixed0(Cents(otherIncome)),
          profitShare |-> ToFixed0(y.profitShare),
          ptoPayout |-> ToFixed0(y.ptoPayout),
          totalWorkIncome |-> ToFixed0(y.totalWorkIncome),
          unemploymentBenefits |-> ToFixed0(y.unemploymentBenefits),
          contribution401k |-> ToFixed0(y.contribution401k),
          totalIncome |-> ToFixed0(y.totalGrossIncome),
          afterTaxIncome |-> ToFixed0(y.afterTaxIncome),
          acaTaxRefund |-> ToFixed0(y.acaTaxRefund),
          partnerIncome |-> ToFixed0(y.partnerAnnualIncome),
          annualExpenses |-> ToFixed0(y.annualExpenses),
          shortfall |-> ToFixed0(y.shortfall),
          cashBalance |-> ToFixed0(cash),
          taxableBalance |-> ToFixed0(taxable),
          retirementBalance |-> ToFixed0(retirement),
          totalNetWorth |-> ToFixed0(cash + taxable + retirement) ]

(* ------------------------------------------------------------------ *)
(* generateSummary                                                     *)
(* ------------------------------------------------------------------ *)

\* results.find(r => parseFloat(r[balance]) <= 0): the index of the first
\* such row, 0 when there is none
FirstIndex(rs, balance) ==
    LET hits == {i \in 1..Len(rs) : rs[i][balance] <= 0}
    IN  IF hits = {} THEN 0 ELSE CHOOSE i \in hits : \A j \in hits : i <= j

\* results.find(...)?.age || 'Never': <<age>>, or <<>> for 'Never'
\* (an age of 0 is falsy, so it also yields 'Never')
DepletionAge(rs, balance) ==
    LET i == FirstIndex(rs, balance)
    IN  IF i = 0 THEN <<>>
        ELSE IF rs[i].age = 0 THEN <<>>
        ELSE <<rs[i].age>>

\* parseInt(s).toLocaleString() of a rounded dollar amount
SignedLocaleString(n) == [negative |-> n < 0, groups |-> ToLocaleString(Abs(n))]

\* ((end / start - 1) * 100).toFixed(1), in tenths of a percent
WageIncrease(start, end) ==
    IF start = 0
    THEN IF end = 0 THEN [text |-> "NaN", tenths |-> 0]
         ELSE [text |-> "Infinity", tenths |-> 0]
    ELSE [text |-> "number", tenths |-> RoundDiv((end - start) * 1000, start)]

\* the object passed to setSummary; rs must not be empty
generateSummary(rs) ==
    LET firstYear == rs[1]
        lastYear == rs[Len(rs)]
    IN  [ wageGrowth |->
            [ start |-> firstYear.hourlyRate,
              end |-> lastYear.hourlyRate,
              increase |-> WageIncrease(firstYear.hourlyRate, lastYear.hourlyRate) ],
          accountDepletion |->
            [ cash |-> DepletionAge(rs, "cashBalance"),
              taxable |-> DepletionAge(rs, "taxableBalance") ],
          finalNetWorth |-> SignedLocaleString(lastYear.totalNetWorth),
          finalAge |-> lastYear.age,
          finalShortfall |->
            [ amount |-> SignedLocaleString(lastYear.shortfall),
              isNegative |-> lastYear.shortfall > 0 ] ]

(* ------------------------------------------------------------------ *)
(* Form field values and their conversions                             *)
(* ------------------------------------------------------------------ *)

\* what a field of formData can hold: a number, NaN, null, undefined, or the
\* text of the input as a sequence of characters (amounts are whole dollars)
Num(n) == [type |-> "number", value |-> n, chars |-> <<>>]

NaN == [type |-> "NaN", value |-> 0, chars |-> <<>>]

Null == [type |-> "null", value |-> 0, chars |-> <<>>]

Undefined == [type |-> "undefined", value |-> 0, chars |-> <<>>]

Str(chars) == [type |-> "string", value |-> 0, chars |-> chars]

DigitChars == << "0", "1", "2", "3", "4", "5", "6", "7", "8", "9" >>

Digits == {DigitChars[i] : i \in 1..10}

DigitValue(c) == (CHOOSE i \in 1..10 : DigitChars[i] = c) - 1

\* String.prototype.trim: the text without leading and trailing blanks
RECURSIVE TrimStart(_)
TrimStart(chars) ==
    IF chars # <<>> /\ Head(chars) = " " THEN TrimStart(Tail(chars)) ELSE chars

RECURSIVE TrimEnd(_)
TrimEnd(chars) ==
    IF chars # <<>> /\ chars[Len(chars)] = " "
    THEN TrimEnd(SubSeq(chars, 1, Len(chars) - 1))
    ELSE chars

Trim(chars) == TrimEnd(TrimStart(chars))

\* the longest run of digits a text starts with
RECURSIVE DigitPrefix(_)
DigitPrefix(chars) ==
    IF chars # <<>> /\ Head(chars) \in Digits
    THEN << Head(chars) >> \o DigitPrefix(Tail(chars))
    ELSE <<>>

\* the value of a run of digits
RECURSIVE DigitsValue(_)
DigitsValue(digits) ==
    IF digits = <<>> THEN 0
    ELSE 10 * DigitsValue(SubSeq(digits, 1, Len(digits) - 1))
           + DigitValue(digits[Len(digits)])

\* a parsed number: NaN, or a value
NotANumber == [nan |-> TRUE, value |-> 0]

Parsed(n) == [nan |-> FALSE, value |-> n]

\* parseFloat: skips leading blanks, reads a sign and the digits that follow,
\* and ignores whatever comes after them
parseFloat(chars) ==
    LET text == TrimStart(chars)
        negative == text # <<>> /\ Head(text) = "-"
        unsigned == IF negative THEN Tail(text) ELSE text
        digits == DigitPrefix(unsigned)
    IN  IF digits = <<>> THEN NotANumber
        ELSE Parsed(IF negative THEN 0 - DigitsValue(digits) ELSE DigitsValue(digits))

\* Number(text): the whole trimmed text must be a number; the empty text is 0
Number(chars) ==
    LET text == Trim(chars)
        negative == text # <<>> /\ Head(text) = "-"
        unsigned == IF negative THEN Tail(text) ELSE text
        digits == DigitPrefix(unsigned)
    IN  IF text = <<>> THEN Parsed(0)
        ELSE IF digits = <<>> \/ Len(digits) # Len(unsigned) THEN NotANumber
        ELSE Parsed(IF negative THEN 0 - DigitsValue(digits) ELSE DigitsValue(digits))

\* getNumericValue of utils/calculations.js
getNumericValue(fieldValue) ==
    IF \/ fieldValue = Str(<<>>)
       \/ fieldValue.type = "null"
       \/ fieldValue.type = "undefined"
    THEN 0
    ELSE IF fieldValue.type = "number" THEN fieldValue.value
    ELSE IF fieldValue.type = "NaN" THEN 0
    ELSE LET parsed == parseFloat(fieldValue.chars)
         IN  IF parsed.nan THEN 0 ELSE parsed.value

\* handleInputBlur with parseFloat in the place of Number
handleInputBlurParsesPrefix(value) ==
    LET trimmedValue == IF value.type = "string" THEN Str(Trim(value.chars)) ELSE value
    IN  IF \/ trimmedValue = Str(<<>>)
           \/ trimmedValue.type = "null"
           \/ trimmedValue.type = "undefined"
           \/ trimmedValue.type = "NaN"
           \/ (trimmedValue.type = "string" /\ parseFloat(trimmedValue.chars).nan)
        THEN Num(0)
        ELSE value

\* handleInputBlur: what the field holds after the blur, given what it held
handleInputBlur(value) ==
    LET trimmedValue == IF value.type = "string" THEN Str(Trim(value.chars)) ELSE value
    IN  IF \/ trimmedValue = Str(<<>>)
           \/ trimmedValue.type = "null"
           \/ trimmedValue.type = "undefined"
           \/ trimmedValue.type = "NaN"
           \/ (trimmedValue.type = "string" /\ Number(trimmedValue.chars).nan)
        THEN Num(0)
        ELSE value

(* ------------------------------------------------------------------ *)
(* Inputs explored                                                     *)
(* ------------------------------------------------------------------ *)

\* smallest age explored (the form's lower limit for endAge)
FirstAge == 45

\* the values each form field ranges over: ages, hours, whole dollars and
\* whole percents
FieldValues ==
    [ currentAge |-> {FirstAge, FirstAge + 1},
      endAge |-> FirstAge..(FirstAge + MaxYears),
      startingCareerHours |-> {9695},
      annualHours |-> {0, 800},
      startingProfitSharing |-> {2000},
      profitSharingPercent |-> {10},
      otherIncome |-> {20000},
      partnerIncome |-> {0},
      taxRate |-> {0},
      currentExpenses |-> {22000, 23000, 60000},
      expenseInflation |-> {3},
      retirementBalance |-> {50000},
      taxableBalance |-> {500, 30000},
      cashBalance |-> {0, 1000, 5000},
      investmentReturn |-> {6},
      cashReturn |-> {0, 4} ]

InputSpace ==
    [ currentAge : FieldValues.currentAge,
      endAge : FieldValues.endAge,
      startingCareerHours : FieldValues.startingCareerHours,
      annualHours : FieldValues.annualHours,
      startingProfitSharing : FieldValues.startingProfitSharing,
      profitSharingPercent : FieldValues.profitSharingPercent,
      otherIncome : FieldValues.otherIncome,
      partnerIncome : FieldValues.partnerIncome,
      taxRate : FieldValues.taxRate,
      currentExpenses : FieldValues.currentExpenses,
      expenseInflation : FieldValues.expenseInflation,
      retirementBalance : FieldValues.retirementBalance,
      taxableBalance : FieldValues.taxableBalance,
      cashBalance : FieldValues.cashBalance,
      investmentReturn : FieldValues.investmentReturn,
      cashReturn : FieldValues.cashReturn ]

\* the fields the user edits after the first projection
EditedFields == {"currentAge"}

(* ------------------------------------------------------------------ *)
(* The calculator component                                            *)
(* ------------------------------------------------------------------ *)

Init ==
    /\ formData \in InputSpace
    /\ configSource \in {"example", "minimal"}
    /\ mainConfigLoad = "pending"
    /\ pc = "start"
    /\ age = 0
    /\ rows = <<>>
    /\ currentCash = 0
    /\ currentTaxable = 0
    /\ currentRetirement = 0
    /\ cashDepleted = FALSE
    /\ taxableDepleted = FALSE
    /\ priorYearW2 = 0
    /\ priorYearIncome = 0
    /\ results = <<>>
    /\ summary = None
    /\ resultsOf = None
    /\ calc = NoCall
    /\ config = configSource
    /\ loaderPc = "constructed"
    /\ currentView = "dashboard"
    /\ rawFormData = NoExpenseFields
    /\ expenseTotals = NoExpenseTotals
    /\ lastExpenseValues = NoExpenseFields
    /\ renderPending = FALSE
    /\ cascade = 0

\* the promise of loadMainConfigAsync resolves: the main configuration
\* replaces the fallback
LoadMainConfigResolved ==
    /\ mainConfigLoad = "pending"
    /\ loaderPc = "constructed"
    /\ pc \in {"unmounted", "start", "done"}
    /\ mainConfigLoad' = "loaded"
    /\ configSource' = "main"
    /\ config' = "main"
    /\ UNCHANGED << formData, pc, runVars, results, summary, resultsOf, calc >>
    /\ UNCHANGED << loaderPc, uiVars >>

\* the import fails and the catch block installs the minimal configuration
LoadMainConfigRejectedFallsBack ==
    /\ mainConfigLoad = "pending"
    /\ loaderPc = "constructed"
    /\ pc \in {"unmounted", "start", "done"}
    /\ mainConfigLoad' = "failed"
    /\ configSource' = "minimal"
    /\ config' = "minimal"
    /\ UNCHANGED << formData, pc, runVars, results, summary, resultsOf, calc >>
    /\ UNCHANGED << loaderPc, uiVars >>

\* the import fails: the catch block keeps the fallback
LoadMainConfigRejected ==
    /\ mainConfigLoad = "pending"
    /\ loaderPc = "constructed"
    /\ pc \in {"unmounted", "start", "done"}
    /\ mainConfigLoad' = "failed"
    /\ UNCHANGED << formData, configSource, pc, runVars, results, summary,
                    resultsOf, calc >>
    /\ UNCHANGED shellVars

\* handleInputChange(field, value); the projection effect runs next, also
\* when a field is retyped with the value it already holds (the typed string
\* differs from the stored number)
HandleInputChange(field, value) ==
    /\ pc = "done"
    /\ formData' = [formData EXCEPT ![field] = value]
    /\ pc' = "start"
    /\ UNCHANGED << configSource, mainConfigLoad, runVars, results, summary,
                    resultsOf, calc >>
    /\ UNCHANGED shellVars

\* calculateProjection with the depletion flags kept from the previous call
CalculateProjectionStartStale ==
    /\ pc = "start"
    /\ rows' = <<>>
    /\ currentCash' = Cents(formData.cashBalance)
    /\ currentTaxable' = Cents(formData.taxableBalance)
    /\ currentRetirement' = Cents(formData.retirementBalance)
    /\ priorYearW2' = 0
    /\ priorYearIncome' = 0
    /\ age' = formData.currentAge
    /\ pc' = "loop"
    /\ UNCHANGED << formData, configSource, mainConfigLoad, results, summary,
                    resultsOf, calc, cashDepleted, taxableDepleted >>
    /\ UNCHANGED shellVars

\* calculateProjection, up to the loop: fresh locals
CalculateProjectionStart ==
    /\ pc = "start"
    /\ rows' = <<>>
    /\ currentCash' = Cents(formData.cashBalance)
    /\ currentTaxable' = Cents(formData.taxableBalance)
    /\ currentRetirement' = Cents(formData.retirementBalance)
    /\ cashDepleted' = FALSE
    /\ taxableDepleted' = FALSE
    /\ priorYearW2' = 0
    /\ priorYearIncome' = 0
    /\ age' = formData.currentAge
    /\ pc' = "loop"
    /\ UNCHANGED << formData, configSource, mainConfigLoad, results, summary,
                    resultsOf, calc >>
    /\ UNCHANGED shellVars

\* the loop condition with an exclusive upper limit
LoopContinuesExclusive(loopAge, endAge) == loopAge < endAge

\* age <= getNumericValue(formData.endAge)
LoopContinues(loopAge, endAge) == loopAge <= endAge

\* one iteration carrying the whole work income into the next year
LoopIterationCarriesWorkIncome ==
    /\ pc = "loop"
    /\ LoopContinues(age, formData.endAge)
    /\ LET y == YearFigures(formData, age, priorYearW2, priorYearIncome)
           cash == CashAfter(currentCash, cashDepleted, y.shortfall,
                             formData.cashReturn)
           taxable == TaxableAfter(currentTaxable, cash.depleted, taxableDepleted,
                                   y.shortfall, formData.investmentReturn)
           retirement == RetirementAfter(currentRetirement,
                                         formData.investmentReturn,
                                         y.contribution401k)
       IN  /\ currentCash' = cash.balance
           /\ cashDepleted' = cash.depleted
           /\ currentTaxable' = taxable.balance
           /\ taxableDepleted' = taxable.depleted
           /\ currentRetirement' = retirement
           /\ rows' = Append(rows, ProjectionRow(age, y, cash.balance,
                                                 taxable.balance, retirement,
                                                 formData.otherIncome))
           /\ priorYearW2' = y.totalWorkIncome
           /\ priorYearIncome' = y.afterTaxIncome
    /\ age' = age + 1
    /\ UNCHANGED << formData, configSource, mainConfigLoad, pc, results, summary,
                    resultsOf, calc >>
    /\ UNCHANGED shellVars

\* one iteration of the for loop
LoopIteration ==
    /\ pc = "loop"
    /\ LoopContinues(age, formData.endAge)
    /\ LET y == YearFigures(formData, age, priorYearW2, priorYearIncome)
           cash == CashAfter(currentCash, cashDepleted, y.shortfall,
                             formData.cashReturn)
           taxable == TaxableAfter(currentTaxable, cash.depleted, taxableDepleted,
                                   y.shortfall, formData.investmentReturn)
           retirement == RetirementAfter(currentRetirement,
                                         formData.investmentReturn,
                                         y.contribution401k)
       IN  /\ currentCash' = cash.balance
           /\ cashDepleted' = cash.depleted
           /\ currentTaxable' = taxable.balance
           /\ taxableDepleted' = taxable.depleted
           /\ currentRetirement' = retirement
           /\ rows' = Append(rows, ProjectionRow(age, y, cash.balance,
                                                 taxable.balance, retirement,
                                                 formData.otherIncome))
           /\ priorYearW2' = y.seasonalW2
           /\ priorYearIncome' = y.afterTaxIncome
    /\ age' = age + 1
    /\ UNCHANGED << formData, configSource, mainConfigLoad, pc, results, summary,
                    resultsOf, calc >>
    /\ UNCHANGED shellVars

\* the loop ends: setResults(results); generateSummary(results).
\* generateSummary reads firstYear.hourlyRate: with no rows firstYear is
\* undefined and the read throws a TypeError out of the effect.
LoopExit ==
    /\ pc = "loop"
    /\ ~LoopContinues(age, formData.endAge)
    /\ results' = rows
    /\ resultsOf' = [inputs |-> formData, source |-> configSource]
    /\ IF Len(rows) = 0
       THEN /\ pc' = "error"
            /\ UNCHANGED summary
       ELSE /\ pc' = "done"
            /\ summary' = generateSummary(rows)
    /\ UNCHANGED << formData, configSource, mainConfigLoad, runVars, calc >>
    /\ UNCHANGED shellVars

Next ==
    \/ LoadMainConfigResolved
    \/ LoadMainConfigRejected
    \/ \E field \in EditedFields : \E value \in FieldValues[field] :
          HandleInputChange(field, value)
    \/ CalculateProjectionStart
    \/ LoopIteration
    \/ LoopExit

Spec == Init /\ [][Next]_vars

(* ------------------------------------------------------------------ *)
(* The whole application: module evaluation, App, Dashboard            *)
(* ------------------------------------------------------------------ *)

\* the hardcoded fallback form data of the component (its cashReturn of 3.98
\* is 4 on the grid of whole percents)
FallbackFormData ==
    [ currentAge |-> 44, endAge |-> 60, startingCareerHours |-> 9695,
      annualHours |-> 800, startingProfitSharing |-> 0,
      profitSharingPercent |-> 10, otherIncome |-> 500, partnerIncome |-> 1500,
      taxRate |-> 22, currentExpenses |-> 52980, expenseInflation |-> 3,
      retirementBalance |-> 560183, taxableBalance |-> 124112,
      cashBalance |-> 76000, investmentReturn |-> 6, cashReturn |-> 4 ]

\* getDefaultFormData() of the minimal configuration: every field is 0
MinimalDefaultFormData ==
    [ currentAge |-> 0, endAge |-> 0, startingCareerHours |-> 0,
      annualHours |-> 0, startingProfitSharing |-> 0,
      profitSharingPercent |-> 0, otherIncome |-> 0, partnerIncome |-> 0,
      taxRate |-> 0, currentExpenses |-> 0, expenseInflation |-> 0,
      retirementBalance |-> 0, taxableBalance |-> 0, cashBalance |-> 0,
      investmentReturn |-> 0, cashReturn |-> 0 ]

\* getDefaultFormData() of the populated configuration, as the component
\* tests mock it: the fallback numbers with currentExpenses 33,240
PopulatedDefaultFormData == [FallbackFormData EXCEPT !.currentExpenses = 33240]

DefaultFormDataOf(source) ==
    IF source = "minimal" THEN MinimalDefaultFormData
    ELSE PopulatedDefaultFormData

\* renderView() of App: the component shown for a view
renderView(view) ==
    CASE view = "auth" -> "Auth"
      [] view = "dashboard" -> "Dashboard"
      [] OTHER -> "Hero"

\* the module of the loader has not been evaluated yet; App will start on
\* useState('landing') and no Dashboard is mounted
AppInit ==
    /\ config = "unset"
    /\ configSource = "minimal"
    /\ mainConfigLoad = "notStarted"
    /\ loaderPc = "new"
    /\ currentView = "landing"
    /\ pc = "unmounted"
    /\ formData = None
    /\ age = 0
    /\ rows = <<>>
    /\ currentCash = 0
    /\ currentTaxable = 0
    /\ currentRetirement = 0
    /\ cashDepleted = FALSE
    /\ taxableDepleted = FALSE
    /\ priorYearW2 = 0
    /\ priorYearIncome = 0
    /\ results = <<>>
    /\ summary = None
    /\ resultsOf = None
    /\ calc = NoCall
    /\ rawFormData = NoExpenseFields
    /\ expenseTotals = NoExpenseTotals
    /\ lastExpenseValues = NoExpenseFields
    /\ renderPending = FALSE
    /\ cascade = 0

\* constructor -> loadConfigWithFallbacks -> loadMainConfigAsync(): the async
\* function runs up to its await and returns a pending promise
ConstructorStartsMainLoad ==
    /\ loaderPc = "new"
    /\ mainConfigLoad' = "pending"
    /\ loaderPc' = "loading"
    /\ UNCHANGED << formData, configSource, pc, runVars, results, summary,
                    resultsOf, calc, config, uiVars >>

\* the rest of loadConfigWithFallbacks and of the constructor: the example
\* configuration if the imported JSON is truthy, else the minimal one
ConstructorInstallsFallback(source) ==
    /\ loaderPc = "loading"
    /\ configSource' = source
    /\ config' = source
    /\ loaderPc' = "constructed"
    /\ UNCHANGED << formData, mainConfigLoad, pc, runVars, results, summary,
                    resultsOf, calc, uiVars >>

\* handleDashboardClick: setCurrentView('dashboard'); coming from another
\* view this mounts Dashboard, whose state starts from getDefaultFormData()
HandleDashboardClick ==
    /\ loaderPc = "constructed"
    /\ pc \in {"unmounted", "start", "done"}
    /\ currentView' = "dashboard"
    /\ IF currentView = "dashboard"
       THEN UNCHANGED << formData, pc, results, summary, resultsOf >>
       ELSE /\ formData' = DefaultFormDataOf(config)
            /\ pc' = "start"
            /\ results' = <<>>
            /\ summary' = None
            /\ resultsOf' = None
    /\ UNCHANGED << configSource, mainConfigLoad, runVars, calc, config, loaderPc,
                    rawFormData, expenseTotals, lastExpenseValues, renderPending,
                    cascade >>

\* handleAuthClick: setCurrentView('auth'); a mounted Dashboard is unmounted
\* and its state is dropped
HandleAuthClick ==
    /\ loaderPc = "constructed"
    /\ pc \in {"unmounted", "start", "done"}
    /\ currentView' = "auth"
    /\ formData' = None
    /\ pc' = "unmounted"
    /\ results' = <<>>
    /\ summary' = None
    /\ resultsOf' = None
    /\ UNCHANGED << configSource, mainConfigLoad, runVars, calc, config, loaderPc,
                    rawFormData, expenseTotals, lastExpenseValues, renderPending,
                    cascade >>

AppNext ==
    \/ ConstructorStartsMainLoad
    \/ \E source \in {"example", "minimal"} : ConstructorInstallsFallback(source)
    \/ LoadMainConfigResolved
    \/ LoadMainConfigRejected
    \/ HandleDashboardClick
    \/ HandleAuthClick
    \/ \E field \in EditedFields : \E value \in FieldValues[field] :
          HandleInputChange(field, value)
    \/ CalculateProjectionStart
    \/ LoopIteration
    \/ LoopExit

AppSpec == AppInit /\ [][AppNext]_vars

(* ------------------------------------------------------------------ *)
(* The expense fields of the form and the effects they trigger         *)
(* ------------------------------------------------------------------ *)

UpperCaseLetters ==
    << "A", "B", "C", "D", "E", "F", "G", "H", "I", "J", "K", "L", "M",
       "N", "O", "P", "Q", "R", "S", "T", "U", "V", "W", "X", "Y", "Z" >>

LowerCaseLetters ==
    << "a", "b", "c", "d", "e", "f", "g", "h", "i", "j", "k", "l", "m",
       "n", "o", "p", "q", "r", "s", "t", "u", "v", "w", "x", "y", "z" >>

\* String.prototype.toLowerCase, character by character
ToLowerCase(chars) ==
    [ i \in 1..Len(chars) |->
        IF \E k \in 1..26 : UpperCaseLetters[k] = chars[i]
        THEN LowerCaseLetters[CHOOSE k \in 1..26 : UpperCaseLetters[k] = chars[i]]
        ELSE chars[i] ]

\* String.prototype.includes
Includes(chars, searchString) ==
    \E i \in 1..(Len(chars) - Len(searchString) + 1) :
        SubSeq(chars, i, i + Len(searchString) - 1) = searchString

\* the category keys of the configurations, and the literal 'essential'
EssentialKey == << "e", "s", "s", "e", "n", "t", "i", "a", "l" >>

NonEssentialKey == << "n", "o", "n", "E", "s", "s", "e", "n", "t", "i", "a", "l" >>

AnnualKey == << "a", "n", "n", "u", "a", "l" >>

\* getExpenseCategories() joined with getExpenseFields(), in key order. The
\* example and the minimal configuration have two monthly categories; the
\* main configuration is the user's own file, taken here to add a category
\* of annual frequency whose field has no default
getExpenseCategories(source) ==
    LET monthly ==
            << [key |-> EssentialKey, frequency |-> "monthly",
                fields |-> << "rent", "utilities", "groceries" >>],
               [key |-> NonEssentialKey, frequency |-> "monthly",
                fields |-> << "misc" >>] >>
    IN  IF source = "main"
        THEN monthly \o << [key |-> AnnualKey, frequency |-> "annual",
                            fields |-> << "carRegistration" >>] >>
        ELSE monthly

\* Object.values(getExpenseFields()).flat(), as a set of keys
ExpenseFieldKeys(source) ==
    LET categories == getExpenseCategories(source)
    IN  UNION {{categories[c].fields[i] : i \in 1..Len(categories[c].fields)} :
                  c \in 1..Len(categories)}

\* the expense fields of getDefaultFormData(): a field without a default is
\* not set
DefaultExpenseFields(source) ==
    IF source = "minimal"
    THEN [f \in ExpenseFieldKeys(source) |-> Num(0)]
    ELSE [f \in ExpenseFieldKeys(source) |->
            CASE f = "rent" -> Num(1760)
              [] f = "utilities" -> Num(150)
              [] f = "groceries" -> Num(860)
              [] f = "misc" -> Num(0)
              [] OTHER -> Undefined]

\* expenseFields of the expense effect: every field read by getNumericValue
ExpenseReadings(source, raw) ==
    [f \in ExpenseFieldKeys(source) |-> getNumericValue(raw[f])]

\* fields.reduce((sum, field) => sum + getNumericValue(formData[field.key]), 0)
RECURSIVE CategoryTotal(_, _)
CategoryTotal(fields, raw) ==
    IF fields = <<>> THEN 0
    ELSE CategoryTotal(SubSeq(fields, 1, Len(fields) - 1), raw)
           + getNumericValue(raw[fields[Len(fields)]])

\* the branch a category's total is added in: whether the lower-cased key
\* includes 'essential'
IsEssentialCategory(categoryKey) == Includes(ToLowerCase(categoryKey), EssentialKey)

\* one of the four accumulators after the first n categories
RECURSIVE Accumulated(_, _, _, _, _)
Accumulated(categories, n, raw, frequency, essential) ==
    IF n = 0 THEN 0
    ELSE Accumulated(categories, n - 1, raw, frequency, essential)
           + IF /\ categories[n].frequency = frequency
                /\ IsEssentialCategory(categories[n].key) = essential
             THEN CategoryTotal(categories[n].fields, raw)
             ELSE 0

\* updateAnnualExpenses: the values it passes to setFormData. Monthly amounts
\* that may hold a twelfth of an annual amount are kept in twelfths of a
\* dollar; currentExpenses = (totalMonthlyExpenses + totalAnnualExpenses / 12)
\* * 12 is a whole number of dollars
updateAnnualExpenses(source, raw) ==
    LET categories == getExpenseCategories(source)
        n == Len(categories)
        essentialMonthly == Accumulated(categories, n, raw, "monthly", TRUE)
        nonEssentialMonthly == Accumulated(categories, n, raw, "monthly", FALSE)
        essentialAnnual == Accumulated(categories, n, raw, "annual", TRUE)
        nonEssentialAnnual == Accumulated(categories, n, raw, "annual", FALSE)
        totalMonthlyExpenses == essentialMonthly + nonEssentialMonthly
        totalAnnualExpenses == essentialAnnual + nonEssentialAnnual
        annualToMonthly == totalAnnualExpenses
        monthlyInTwelfths == 12 * totalMonthlyExpenses + annualToMonthly
    IN  [ essentialMonthly |-> 12 * essentialMonthly + essentialAnnual,
          nonEssentialMonthly |-> 12 * nonEssentialMonthly + nonEssentialAnnual,
          currentExpenses |-> (monthlyInTwelfths * 12) \div 12 ]

\* the texts typed into the expense fields
TypedInForm ==
    [ rent |-> {<<>>, << " " >>, << "1" >>, << "1", "a" >>, << "-", "1" >>},
      utilities |-> {},
      groceries |-> {},
      misc |-> {<< "1" >>},
      carRegistration |-> {<< "1" >>, << "1", "1" >>} ]

\* the dependencies of calculateProjection differ from those of its last run
ProjectionIsStale == resultsOf = None \/ resultsOf.inputs # formData

\* no effect is left to run and no render is scheduled
Quiescent == pc = "done" /\ ~renderPending

\* the Dashboard as it mounts, once the configuration has settled: the main
\* configuration was loaded, or its import failed and the fallback stays.
\* getDefaultFormData() sets currentExpenses to 0, to be computed
FormInit ==
    /\ config \in {"minimal", "example", "main"}
    /\ configSource = config
    /\ mainConfigLoad = IF config = "main" THEN "loaded" ELSE "failed"
    /\ loaderPc = "constructed"
    /\ currentView = "dashboard"
    /\ formData = [DefaultFormDataOf(config) EXCEPT !.currentExpenses = 0]
    /\ rawFormData = DefaultExpenseFields(config)
    /\ expenseTotals = NoExpenseTotals
    /\ lastExpenseValues = NoExpenseFields
    /\ renderPending = TRUE
    /\ cascade = 0
    /\ pc = "start"
    /\ age = 0
    /\ rows = <<>>
    /\ currentCash = 0
    /\ currentTaxable = 0
    /\ currentRetirement = 0
    /\ cashDepleted = FALSE
    /\ taxableDepleted = FALSE
    /\ priorYearW2 = 0
    /\ priorYearIncome = 0
    /\ results = <<>>
    /\ summary = None
    /\ resultsOf = None
    /\ calc = NoCall

\* handleInputChange on an expense field: the text is stored as typed and a
\* render is scheduled. Handlers run between render passes
TypeInField(field, chars) ==
    /\ Quiescent
    /\ field \in ExpenseFieldKeys(config)
    /\ rawFormData' = [rawFormData EXCEPT ![field] = Str(chars)]
    /\ renderPending' = TRUE
    /\ cascade' = 0
    /\ UNCHANGED << formData, configSource, mainConfigLoad, pc, runVars, results,
                    summary, resultsOf, calc, config, loaderPc, currentView,
                    expenseTotals, lastExpenseValues >>

\* handleInputBlur on an expense field: setFormData is called only when the
\* value is not a number
BlurField(field) ==
    /\ Quiescent
    /\ field \in ExpenseFieldKeys(config)
    /\ IF handleInputBlur(rawFormData[field]) = rawFormData[field]
       THEN UNCHANGED << rawFormData, renderPending, cascade >>
       ELSE /\ rawFormData' = [rawFormData EXCEPT ![field] = handleInputBlur(@)]
            /\ renderPending' = TRUE
            /\ cascade' = 0
    /\ UNCHANGED << formData, configSource, mainConfigLoad, pc, runVars, results,
                    summary, resultsOf, calc, config, loaderPc, currentView,
                    expenseTotals, lastExpenseValues >>

\* the projection effect of a render pass: it runs when a dependency of
\* calculateProjection changed since the last run. Its run reads the form
\* data of the render it belongs to, so it is taken before the update of the
\* expense effect of the same pass is applied
RunProjectionEffect ==
    /\ renderPending
    /\ pc = "done"
    /\ ProjectionIsStale
    /\ pc' = "start"
    /\ UNCHANGED << formData, configSource, mainConfigLoad, runVars, results,
                    summary, resultsOf, calc >>
    /\ UNCHANGED shellVars

\* the expense effect that calls updateAnnualExpenses without recording the
\* values it has seen
RunExpenseEffectForgets ==
    /\ renderPending
    /\ pc = "done"
    /\ ~ProjectionIsStale
    /\ cascade < MaxPasses
    /\ cascade' = cascade + 1
    /\ LET expenseFields == ExpenseReadings(config, rawFormData)
           hasChanged ==
               \E f \in DOMAIN expenseFields :
                   \/ f \notin DOMAIN lastExpenseValues
                   \/ lastExpenseValues[f] # expenseFields[f]
           totals == updateAnnualExpenses(config, rawFormData)
       IN  IF hasChanged
           THEN /\ UNCHANGED lastExpenseValues
                /\ formData' = [formData EXCEPT !.currentExpenses = totals.currentExpenses]
                /\ expenseTotals' =
                       [essentialMonthly |-> totals.essentialMonthly,
                        nonEssentialMonthly |-> totals.nonEssentialMonthly]
                /\ renderPending' = TRUE
           ELSE /\ renderPending' = FALSE
                /\ UNCHANGED << formData, expenseTotals, lastExpenseValues >>
    /\ UNCHANGED << configSource, mainConfigLoad, pc, runVars, results, summary,
                    resultsOf, calc, config, loaderPc, currentView, rawFormData >>

\* the expense effect of a render pass (it has no dependency list): compare
\* the readings of the expense fields with those of the last change; on a
\* change remember them and call updateAnnualExpenses, whose setFormData
\* schedules another render
RunExpenseEffect ==
    /\ renderPending
    /\ pc = "done"
    /\ ~ProjectionIsStale
    /\ cascade < MaxPasses
    /\ cascade' = cascade + 1
    /\ LET expenseFields == ExpenseReadings(config, rawFormData)
           hasChanged ==
               \E f \in DOMAIN expenseFields :
                   \/ f \notin DOMAIN lastExpenseValues
                   \/ lastExpenseValues[f] # expenseFields[f]
           totals == updateAnnualExpenses(config, rawFormData)
       IN  IF hasChanged
           THEN /\ lastExpenseValues' = expenseFields
                /\ formData' = [formData EXCEPT !.currentExpenses = totals.currentExpenses]
                /\ expenseTotals' =
                       [essentialMonthly |-> totals.essentialMonthly,
                        nonEssentialMonthly |-> totals.nonEssentialMonthly]
                /\ renderPending' = TRUE
           ELSE /\ renderPending' = FALSE
                /\ UNCHANGED << formData, expenseTotals, lastExpenseValues >>
    /\ UNCHANGED << configSource, mainConfigLoad, pc, runVars, results, summary,
                    resultsOf, calc, config, loaderPc, currentView, rawFormData >>

FormNext ==
    \/ \E field \in DOMAIN TypedInForm : \E chars \in TypedInForm[field] :
          TypeInField(field, chars)
    \/ \E field \in DOMAIN TypedInForm : BlurField(field)
    \/ RunProjectionEffect
    \/ RunExpenseEffect
    \/ CalculateProjectionStart
    \/ LoopIteration
    \/ LoopExit

FormSpec == FormInit /\ [][FormNext]_vars

\* the guards of the steps of the effects: the projection is running, or a
\* render is scheduled whose projection effect or expense effect can run
CascadeCanStep ==
    \/ pc \in {"start", "loop"}
    \/ /\ renderPending
       /\ pc = "done"
       /\ (ProjectionIsStale \/ cascade < MaxPasses)

\* what is left of the cascade: the passes of the expense effect not yet
\* taken, then the projection not yet started, then the rows not yet computed
CascadeVariant ==
    LET rowsToCompute == formData.endAge - formData.currentAge + 1
    IN  1000 * (MaxPasses - cascade)
          + CASE pc = "done" /\ ProjectionIsStale -> rowsToCompute + 3
              [] pc = "start" -> rowsToCompute + 2
              [] pc = "loop" -> formData.endAge - age + 2
              [] OTHER -> 0

\* the component mounted on the minimal configuration: getDefaultFormData()
\* is 0 in every field (the projection starts at age 0), and the user has
\* typed an end age, balances, expenses and other income
MinimalDefaultsInputSpace ==
    [ currentAge : {0},
      endAge : 0..MaxYears,
      startingCareerHours : {0},
      annualHours : {0},
      startingProfitSharing : {0},
      profitSharingPercent : {0},
      otherIncome : {0, 300},
      partnerIncome : {0},
      taxRate : {0},
      currentExpenses : {0, 500},
      expenseInflation : {0},
      retirementBalance : {0},
      taxableBalance : {0, 2000},
      cashBalance : {0, 1000},
      investmentReturn : {0},
      cashReturn : {0} ]

MinimalDefaultsInit ==
    /\ formData \in MinimalDefaultsInputSpace
    /\ configSource \in {"example", "minimal"}
    /\ mainConfigLoad = "pending"
    /\ pc = "start"
    /\ age = 0
    /\ rows = <<>>
    /\ currentCash = 0
    /\ currentTaxable = 0
    /\ currentRetirement = 0
    /\ cashDepleted = FALSE
    /\ taxableDepleted = FALSE
    /\ priorYearW2 = 0
    /\ priorYearIncome = 0
    /\ results = <<>>
    /\ summary = None
    /\ resultsOf = None
    /\ calc = NoCall
    /\ config = configSource
    /\ loaderPc = "constructed"
    /\ currentView = "dashboard"
    /\ rawFormData = NoExpenseFields
    /\ expenseTotals = NoExpenseTotals
    /\ lastExpenseValues = NoExpenseFields
    /\ renderPending = FALSE
    /\ cascade = 0

MinimalDefaultsSpec == MinimalDefaultsInit /\ [][Next]_vars

(* ------------------------------------------------------------------ *)
(* Direct calls of the formulas of utils/calculations.js               *)
(* ------------------------------------------------------------------ *)

\* credited hours explored: a window around every step threshold, and the ends
HoursSamples ==
    {0, 100000}
      \cup {StepThresholds[s] + d : s \in 1..13, d \in (-HoursWindow)..HoursWindow}

CalcInit ==
    /\ formData = FallbackFormData
    /\ configSource \in {"example", "minimal"}
    /\ mainConfigLoad = "pending"
    /\ pc = "start"
    /\ age = 0
    /\ rows = <<>>
    /\ currentCash = 0
    /\ currentTaxable = 0
    /\ currentRetirement = 0
    /\ cashDepleted = FALSE
    /\ taxableDepleted = FALSE
    /\ priorYearW2 = 0
    /\ priorYearIncome = 0
    /\ results = <<>>
    /\ summary = None
    /\ resultsOf = None
    /\ calc = NoCall
    /\ config = configSource
    /\ loaderPc = "constructed"
    /\ currentView = "dashboard"
    /\ rawFormData = NoExpenseFields
    /\ expenseTotals = NoExpenseTotals
    /\ lastExpenseValues = NoExpenseFields
    /\ renderPending = FALSE
    /\ cascade = 0

DetermineStepCall(rrchHours) ==
    /\ calc' = [fn |-> "determineStep", args |-> <<rrchHours>>,
                result |-> determineStep(rrchHours)]
    /\ UNCHANGED << formData, configSource, mainConfigLoad, pc, runVars, results,
                    summary, resultsOf >>
    /\ UNCHANGED shellVars

\* after-tax incomes explored, in cents: a window around these percentages
\* of the federal poverty level (the thresholds, every tier bound, and points
\* inside the sliding range above 300)
ACAPercents == {0, 50, 100, 150, 200, 250, 300, 320, 350, 400, 450}

IncomeSamples ==
    { p * (GovernmentRates.aca.federalPovertyLevel \div 100) + d :
        p \in ACAPercents, d \in (-IncomeWindow)..IncomeWindow }
      \ { -d : d \in 1..IncomeWindow }

\* yearly W2 earnings explored, in cents: a grid of 5,000 dollars, the two
\* sides of minimumEarnings, and two neighbours in the middle of the range
EarningsSamples ==
    { 500000 * k : k \in 0..EarningsSteps }
      \cup {529900, 530000, 1590000, 1600000}

\* annual hours and hourly rates (1/10000 dollar) explored for the PTO payout
PTOHoursSamples == {0, 29, 30, 31, 799, 800, 810, 2080}

PTORateSamples == {274500, 315000, 1000000}

CalculateACASubsidyCall(afterTaxIncome) ==
    /\ calc' = [fn |-> "calculateACASubsidy", args |-> <<afterTaxIncome>>,
                result |-> calculateACASubsidy(afterTaxIncome)]
    /\ UNCHANGED << formData, configSource, mainConfigLoad, pc, runVars, results,
                    summary, resultsOf >>
    /\ UNCHANGED shellVars

CalculateUnemploymentBenefitsCall(currentYearW2, priorYearW2Arg) ==
    /\ calc' = [fn |-> "calculateUnemploymentBenefits",
                args |-> <<currentYearW2, priorYearW2Arg>>,
                result |-> calculateUnemploymentBenefits(currentYearW2,
                                                         priorYearW2Arg)]
    /\ UNCHANGED << formData, configSource, mainConfigLoad, pc, runVars, results,
                    summary, resultsOf >>
    /\ UNCHANGED shellVars

CalculatePTOPayoutCall(annualHours, hourlyRate) ==
    /\ calc' = [fn |-> "calculatePTOPayout", args |-> <<annualHours, hourlyRate>>,
                result |-> calculatePTOPayout(annualHours, hourlyRate)]
    /\ UNCHANGED << formData, configSource, mainConfigLoad, pc, runVars, results,
                    summary, resultsOf >>
    /\ UNCHANGED shellVars

\* calculatePTOPayout while getBusinessRules throws (the unit test mocks it
\* to): the error is caught and the fallback value is returned
CalculatePTOPayoutRulesThrowCall(annualHours, hourlyRate) ==
    /\ calc' = [fn |-> "calculatePTOPayout/catch",
                args |-> <<annualHours, hourlyRate>>,
                result |-> calculatePTOPayoutFallback(annualHours, hourlyRate),
                threw |-> FALSE]
    /\ UNCHANGED << formData, configSource, mainConfigLoad, pc, runVars, results,
                    summary, resultsOf >>
    /\ UNCHANGED shellVars

\* the characters typed: a blank, a sign, a digit and a letter
Chars == {" ", "-", "1", "a"}

\* every text of at most MaxTyped characters
TypedTexts == UNION {[1..n -> Chars] : n \in 0..MaxTyped}

\* the field values explored: the texts, and the values that are not text
RawSamples ==
    {Str(chars) : chars \in TypedTexts}
      \cup {Null, Undefined, NaN, Num(0), Num(42), Num(-50)}

GetNumericValueCall(fieldValue) ==
    /\ calc' = [fn |-> "getNumericValue", args |-> <<fieldValue>>,
                result |-> getNumericValue(fieldValue)]
    /\ UNCHANGED << formData, configSource, mainConfigLoad, pc, runVars, results,
                    summary, resultsOf >>
    /\ UNCHANGED shellVars

\* the field holds value (typed, or set by the component) and loses the focus
HandleInputBlurCall(value) ==
    /\ calc' = [fn |-> "handleInputBlur", args |-> <<value>>,
                result |-> handleInputBlur(value)]
    /\ UNCHANGED << formData, configSource, mainConfigLoad, pc, runVars, results,
                    summary, resultsOf >>
    /\ UNCHANGED shellVars

CalcNext ==
    \/ \E rrchHours \in HoursSamples : DetermineStepCall(rrchHours)
    \/ \E afterTaxIncome \in IncomeSamples : CalculateACASubsidyCall(afterTaxIncome)
    \/ \E currentYearW2 \in EarningsSamples : \E priorYearW2Arg \in EarningsSamples :
          CalculateUnemploymentBenefitsCall(currentYearW2, priorYearW2Arg)
    \/ \E annualHours \in PTOHoursSamples : \E hourlyRate \in PTORateSamples :
          CalculatePTOPayoutCall(annualHours, hourlyRate)
    \/ \E annualHours \in PTOHoursSamples : \E hourlyRate \in PTORateSamples :
          CalculatePTOPayoutRulesThrowCall(annualHours, hourlyRate)
    \/ \E fieldValue \in RawSamples : GetNumericValueCall(fieldValue)
    \/ \E value \in RawSamples : HandleInputBlurCall(value)

CalcSpec == CalcInit /\ [][CalcNext]_vars

(* ------------------------------------------------------------------ *)
(* Properties                                                          *)
(* ------------------------------------------------------------------ *)

\* a step that is one iteration of the projection loop
YearStep == pc = "loop" /\ Len(rows') = Len(rows) + 1

\* the figures of the year the next iteration computes
ThisYear == YearFigures(formData, age, priorYearW2, priorYearIncome)

LastRow == rows[Len(rows)]

\* C1: if the ending cash balance of some year of a run is 0, the ending
\* cash balance of every later year of that run is 0, whatever the later
\* shortfalls or surpluses are.
C1_ZeroCashStaysZero ==
    [][(YearStep /\ Len(rows) >= 1 /\ currentCash = 0) => currentCash' = 0]_vars

\* C2: within a run the depletion flags are never reset from true to false,
\* and taxableDepleted is true only where cashDepleted is true.
C2_DepletionOnlyMovesForward ==
    /\ [][(pc # "start") =>
            /\ (cashDepleted => cashDepleted')
            /\ (taxableDepleted => taxableDepleted')]_vars
    /\ [](taxableDepleted => cashDepleted)

\* a surplus year has passed with cash depleted and the flag has stayed
C2_Witness ==
    /\ pc = "loop"
    /\ Len(rows) >= 2
    /\ cashDepleted
    /\ LastRow.shortfall < 0
    /\ rows[Len(rows) - 1].cashBalance = 0

\* C3 as stated: in the year in which cash cannot cover a positive shortfall
\* nothing is subtracted from the taxable balance.
C3_NothingDrawnFromTaxable ==
    [][(YearStep /\ ~cashDepleted /\ cashDepleted') =>
          currentTaxable' >= currentTaxable]_vars

\* C3 amended: in the year in which cash cannot cover a positive shortfall,
\* cash is set to 0 and the taxable balance, grown by the investment return,
\* is charged the whole shortfall of that year: it ends at the grown balance
\* minus the shortfall if it covers it, and otherwise at 0 and depleted.
C3_WholeShortfallDrawnFromTaxable ==
    [][(YearStep /\ ~cashDepleted /\ cashDepleted') =>
          LET grown == GrowPct(currentTaxable, formData.investmentReturn)
              shortfall == ThisYear.shortfall
          IN  /\ shortfall > 0
              /\ currentCash' = 0
              /\ IF grown >= shortfall
                 THEN currentTaxable' = grown - shortfall /\ ~taxableDepleted'
                 ELSE currentTaxable' = 0 /\ taxableDepleted']_vars

\* the first year depleted cash and the taxable balance paid for it
C3_Witness ==
    /\ pc = "loop"
    /\ Len(rows) = 1
    /\ cashDepleted
    /\ ~taxableDepleted
    /\ currentTaxable > 0
    /\ currentTaxable < Cents(formData.taxableBalance)

\* C4: in a year that starts with cash depleted and taxable not depleted, a
\* non-positive shortfall is credited to no account: cash stays 0, taxable
\* ends at its prior balance times (1 + investmentReturn/100), retirement
\* gets only its growth and the contribution.
C4_SurplusIsDiscarded ==
    [][(YearStep /\ cashDepleted /\ ~taxableDepleted /\ ThisYear.shortfall <= 0) =>
          /\ currentCash = 0
          /\ currentCash' = 0
          /\ currentTaxable' = GrowPct(currentTaxable, formData.investmentReturn)
          /\ currentRetirement' =
                GrowPct(currentRetirement, formData.investmentReturn)
                  + ThisYear.contribution401k
          /\ LastRow'.cashBalance = 0]_vars

\* a surplus year has just passed in the state cash depleted / taxable active
C4_Witness ==
    /\ pc = "loop"
    /\ Len(rows) >= 2
    /\ cashDepleted
    /\ ~taxableDepleted
    /\ currentTaxable > 0
    /\ LastRow.shortfall < 0
    /\ rows[Len(rows) - 1].shortfall > 0

\* C5: once cash and taxable are both depleted, every later year leaves both
\* at 0 whatever the shortfall or surplus, and the row's total net worth is
\* the retirement balance alone.
C5_BothDepletedStayEmpty ==
    [][(YearStep /\ cashDepleted /\ taxableDepleted) =>
          /\ currentCash' = 0
          /\ currentTaxable' = 0
          /\ cashDepleted' /\ taxableDepleted'
          /\ LastRow'.cashBalance = 0
          /\ LastRow'.taxableBalance = 0
          /\ LastRow'.totalNetWorth = LastRow'.retirementBalance]_vars

\* a surplus year has just passed with both accounts already depleted
C5_Witness ==
    /\ pc = "loop"
    /\ Len(rows) >= 2
    /\ cashDepleted
    /\ taxableDepleted
    /\ LastRow.shortfall < 0
    /\ rows[Len(rows) - 1].taxableBalance = 0
    /\ rows[Len(rows) - 1].shortfall > 0

\* C6: in every simulated year the retirement balance becomes its prior value
\* times (1 + investmentReturn/100) plus profitShare times contributionRate;
\* it is never drawn on to cover a shortfall.
C6_RetirementGrowsAndCollects ==
    [][YearStep =>
          LET profitShare ==
                  IF age = formData.currentAge
                  THEN Cents(formData.startingProfitSharing)
                  ELSE MulDiv(priorYearW2, formData.profitSharingPercent, 100)
              contribution ==
                  MulDiv(profitShare,
                         getBusinessRules.retirement.contributionRate, 100)
          IN  /\ currentRetirement' =
                    MulDiv(currentRetirement, 100 + formData.investmentReturn, 100)
                      + contribution
              /\ currentRetirement' >= currentRetirement]_vars

\* a year with a shortfall no other account could cover, and a contribution
C6_Witness ==
    /\ pc = "loop"
    /\ Len(rows) >= 1
    /\ cashDepleted
    /\ taxableDepleted
    /\ LastRow.shortfall > 0
    /\ LastRow.contribution401k > 0

\* C7: for endAge >= currentAge a run terminates and produces exactly
\* endAge - currentAge + 1 rows, with ages currentAge, ..., endAge in order.
\* Termination is the variant endAge + 1 - age: it is never negative, every
\* iteration lowers it by one, and at 0 only the exit of the loop is enabled.
C7_OneRowPerAge ==
    /\ [](pc = "loop" /\ formData.endAge >= formData.currentAge =>
            /\ age <= formData.endAge + 1
            /\ Len(rows) = age - formData.currentAge
            /\ (age = formData.endAge + 1 => ~ENABLED LoopIteration))
    /\ [][YearStep => age' = age + 1 /\ formData' = formData]_vars
    /\ [](pc = "done" /\ formData.endAge >= formData.currentAge =>
            /\ Len(results) = formData.endAge - formData.currentAge + 1
            /\ \A i \in 1..Len(results) :
                  results[i].age = formData.currentAge + i - 1)

\* a run of at least three years has completed
C7_Witness ==
    /\ pc = "done"
    /\ formData.endAge >= formData.currentAge + 2
    /\ Len(results) >= 3

\* C8: a run with the inputs and rate tables of the run before it computes
\* the same rows: nothing a run wrote is visible to the next.
C8_RerunGivesSameRows ==
    (/\ pc = "loop"
     /\ ~LoopContinues(age, formData.endAge)
     /\ resultsOf # None
     /\ resultsOf.inputs = formData
     /\ RateTablesOf(resultsOf.source) = RateTablesOf(configSource))
        => rows = results

\* a second run over the same inputs has finished, with cash depleted in it
C8_Witness ==
    /\ pc = "loop"
    /\ ~LoopContinues(age, formData.endAge)
    /\ resultsOf # None
    /\ resultsOf.inputs = formData
    /\ RateTablesOf(resultsOf.source) = RateTablesOf(configSource)
    /\ Len(rows) >= 2
    /\ cashDepleted

\* C9: a projection run followed by the derivation of the summary raises no
\* error, for every currentAge and endAge the form lets the user enter.
C9_NoError == pc # "error"

\* C10: determineStep(h) is the smallest step whose threshold is >= h, with
\* the threshold itself inclusive, and 13 when h exceeds every threshold; the
\* result is in 1..13 and non-decreasing in h.
C10_DetermineStep ==
    calc.fn = "determineStep" =>
        LET h == calc.args[1]
            thresholds == getPayScale.stepThresholds
            reaching == {s \in 1..13 : thresholds[s] >= h}
        IN  /\ calc.result \in 1..13
            /\ reaching = {} => calc.result = 13
            /\ reaching # {} =>
                  /\ calc.result \in reaching
                  /\ \A s \in reaching : calc.result <= s
            /\ \A s \in 1..12 :
                  /\ h = thresholds[s] => calc.result = s
                  /\ h = thresholds[s] + 1 => calc.result = s + 1
            /\ \A lower \in HoursSamples :
                  lower <= h => determineStep(lower) <= calc.result

\* hours one above the first threshold were classified as step 2
C10_Witness ==
    /\ calc.fn = "determineStep"
    /\ calc.args = <<StepThresholds[1] + 1>>
    /\ calc.result = 2

\* C11: calculateACASubsidy returns exactly 0 when the income as a percentage
\* of the federal poverty level is below minimumPercent or above
\* maximumPercent; an income exactly on either threshold is inside the
\* eligible range (it gets the in-range amount); the result is never negative
\* for an income >= 0.
C11_SubsidyZeroOutsideRange ==
    calc.fn = "calculateACASubsidy" =>
        LET income == calc.args[1]
            aca == getGovernmentRates.aca
            fpl == aca.federalPovertyLevel
            floorIncome == aca.incomeThresholds.minimumPercent * fpl
            ceilingIncome == aca.incomeThresholds.maximumPercent * fpl
            benchmark == 12 * aca.benchmarkPremiumMonthly
        IN  /\ calc.result >= 0
            /\ (income * 100 < floorIncome \/ income * 100 > ceilingIncome)
                  => calc.result = 0
            /\ income * 100 = floorIncome =>
                  calc.result =
                     Max(0, benchmark
                              - MulDiv(income, aca.subsidyRates[150], 100000))
            /\ income * 100 = ceilingIncome =>
                  calc.result =
                     Max(0, benchmark
                              - MulDiv(income, aca.subsidyRates[300] - 1900, 100000))

\* an income exactly on the lower threshold got a subsidy
C11_Witness ==
    /\ calc.fn = "calculateACASubsidy"
    /\ calc.args[1] * 100
         = GovernmentRates.aca.incomeThresholds.minimumPercent
             * GovernmentRates.aca.federalPovertyLevel
    /\ calc.result > 0

\* C12: calculateUnemploymentBenefits(0, 0) is 0, and for all non-negative
\* earnings the result is >= 0 and at most maxWeeklyBenefit * maxDurationWeeks.
C12_BenefitsBounded ==
    calc.fn = "calculateUnemploymentBenefits" =>
        LET rules == getGovernmentRates.unemployment
        IN  /\ calc.result >= 0
            /\ calc.result <= rules.maxWeeklyBenefit * rules.maxDurationWeeks * 100
            /\ calc.args = <<0, 0>> => calc.result = 0

\* earnings high enough for the cap paid exactly the cap
C12_Witness ==
    /\ calc.fn = "calculateUnemploymentBenefits"
    /\ calc.args[1] >= 10000000
    /\ calc.result = GovernmentRates.unemployment.maxWeeklyBenefit
                       * GovernmentRates.unemployment.maxDurationWeeks * 100

\* Math.round(highestQuarterEarnings / weeksPerQuarter - weeklyBenefitDeduction):
\* the weekly amount before the cap, in dollars
WeeklyBenefitAmount(currentYearW2, priorYearW2Arg) ==
    LET rules == getGovernmentRates.unemployment
    IN  ((Max(currentYearW2, priorYearW2Arg) + 2 * rules.weeksPerQuarter * 100)
           \div (4 * rules.weeksPerQuarter * 100))
        - rules.weeklyBenefitDeduction

\* C13: with the other year's earnings held fixed, the unemployment benefit
\* is non-decreasing in either year's earnings, over the range where the
\* weekly amount is at or below maxWeeklyBenefit.
C13_BenefitsMonotone ==
    calc.fn = "calculateUnemploymentBenefits" =>
        LET current == calc.args[1]
            prior == calc.args[2]
        IN  WeeklyBenefitAmount(current, prior)
               <= getGovernmentRates.unemployment.maxWeeklyBenefit
            => /\ \A lower \in EarningsSamples :
                    lower <= current =>
                       calculateUnemploymentBenefits(lower, prior) <= calc.result
               /\ \A lower \in EarningsSamples :
                    lower <= prior =>
                       calculateUnemploymentBenefits(current, lower) <= calc.result

\* below the cap, higher current earnings paid strictly more than lower ones
\* that already qualified
C13_Witness ==
    /\ calc.fn = "calculateUnemploymentBenefits"
    /\ calc.args = <<1600000, 0>>
    /\ WeeklyBenefitAmount(1600000, 0)
         < GovernmentRates.unemployment.maxWeeklyBenefit
    /\ 0 < calculateUnemploymentBenefits(1590000, 0)
    /\ calculateUnemploymentBenefits(1590000, 0) < calc.result

\* C14: the PTO payout is floor(annualHours / hoursPerPTOHour) * hourlyRate:
\* partial accrual is dropped, so 799 and 800 hours at 30 hours per PTO hour
\* both pay 26 PTO hours, and 0 hours pay 0.
C14_PTOFloors ==
    calc.fn = "calculatePTOPayout" =>
        LET annualHours == calc.args[1]
            hourlyRate == calc.args[2]
            perHour == getBusinessRules.pto.hoursPerPTOHour
        IN  /\ \E ptoHours \in 0..annualHours :
                  /\ perHour * ptoHours <= annualHours
                  /\ annualHours < perHour * (ptoHours + 1)
                  /\ calc.result = RoundDiv(ptoHours * hourlyRate, 100)
            /\ (annualHours \in {799, 800} /\ perHour = 30) =>
                  calc.result = RoundDiv(26 * hourlyRate, 100)
            /\ annualHours = 0 => calc.result = 0

\* 799 hours at 27.45 paid 26 PTO hours: 713.70
C14_Witness ==
    /\ calc.fn = "calculatePTOPayout"
    /\ calc.args = <<799, 274500>>
    /\ calc.result = 71370

\* C15: profit share is lagged one year: the first year's profit share is
\* startingProfitSharing, and every later year's is profitSharingPercent / 100
\* of the previous row's seasonal W2, which is hourlyRate * annualHours of
\* that year alone (no PTO, profit share or other income).
C15_ProfitShareLagsOneYear ==
    /\ [](pc = "loop" /\ Len(rows) >= 1 =>
             LastRow.seasonalW2 = ToFixed0(priorYearW2))
    /\ [][YearStep =>
            /\ rows'[Len(rows')].profitShare =
                  ToFixed0(IF Len(rows) = 0
                           THEN Cents(formData.startingProfitSharing)
                           ELSE MulDiv(priorYearW2,
                                       formData.profitSharingPercent, 100))
            /\ priorYearW2' =
                  RoundDiv(calculateHourlyRate(
                              formData.startingCareerHours
                                + Len(rows) * formData.annualHours,
                              Len(rows))
                             * formData.annualHours, 100)]_vars

\* a second year whose profit share came from the first year's seasonal W2
C15_Witness ==
    /\ pc = "loop"
    /\ Len(rows) >= 2
    /\ rows[1].profitShare = formData.startingProfitSharing
    /\ rows[1].seasonalW2 > 0
    /\ rows[2].profitShare > 0
    /\ rows[2].profitShare # rows[1].profitShare
    /\ rows[2].profitShare * 100
         = rows[1].seasonalW2 * formData.profitSharingPercent

\* C16: the ACA subsidy of the first year is 0, and the subsidy of every later
\* year is calculateACASubsidy of the previous year's after-tax income.
C16_SubsidyLagsOneYear ==
    /\ [](pc = "loop" /\ Len(rows) >= 1 =>
             LastRow.afterTaxIncome = ToFixed0(priorYearIncome))
    /\ [][YearStep =>
            rows'[Len(rows')].acaTaxRefund =
               ToFixed0(IF Len(rows) = 0 THEN 0
                        ELSE calculateACASubsidy(priorYearIncome))]_vars

\* a first year without subsidy followed by a year with one, on a different
\* after-tax income
C16_Witness ==
    /\ pc = "loop"
    /\ Len(rows) >= 2
    /\ rows[1].acaTaxRefund = 0
    /\ rows[2].acaTaxRefund > 0
    /\ rows[2].afterTaxIncome # rows[1].afterTaxIncome
    /\ rows[2].acaTaxRefund
         = ToFixed0(calculateACASubsidy(Cents(rows[1].afterTaxIncome)))

\* C17: the cash depletion age of the summary is the age of the first row
\* whose ending cash balance is <= 0, and is 'Never' only when no row has an
\* ending cash balance <= 0; the same holds for the taxable depletion age.
C17_DepletionAgeIsFirstEmptyRow ==
    pc = "done" =>
        \A account \in { <<"cash", "cashBalance">>, <<"taxable", "taxableBalance">> } :
            LET empty == {i \in 1..Len(results) : results[i][account[2]] <= 0}
                reported == summary.accountDepletion[account[1]]
            IN  IF empty = {} THEN reported = <<>>
                ELSE reported
                       = << results[CHOOSE i \in empty : \A j \in empty : i <= j].age >>

\* C18: the hourly rate of the projection year y = age - currentAge is
\* stepRates[determineStep(cumulative hours of that year)]
\* * (1 + annualRaiseRate)^y: the exponent counts the years since the start of
\* the projection and is not reset when the step changes; and
\* calculateHourlyRate(0, 0) is exactly stepRates[1].
C18_RaiseCompoundsFromStart ==
    /\ [](calculateHourlyRate(0, 0) = getPayScale.stepRates[1])
    /\ [][YearStep =>
            LET y == age - formData.currentAge
                row == rows'[Len(rows')]
            IN  /\ row.step
                     = determineStep(formData.startingCareerHours
                                       + y * formData.annualHours)
                /\ row.hourlyRate
                     = ToFixed2(CompoundPct(getPayScale.stepRates[row.step],
                                            getPayScale.annualRaiseRate, y))]_vars

\* the third year moved up a step and still carries two years of raises:
\* 32.50 * 1.04^2 = 35.15
C18_Witness ==
    /\ pc = "loop"
    /\ Len(rows) >= 3
    /\ rows[2].step = 9
    /\ rows[3].step = 10
    /\ rows[3].hourlyRate = 3515

\* C19: the applicable rate is chosen by tiers with inclusive upper bounds
\* (<= 150 rate[150], <= 200 rate[200], <= 250 rate[250], <= 300 rate[300]);
\* above 300 it is rate[300] - 0.019 * (percent - 300) / 100; the subsidy is
\* max(0, 12 * benchmarkPremiumMonthly - income * rate), and rate[400] takes
\* no part in it.
C19_TierSelection ==
    calc.fn = "calculateACASubsidy" =>
        LET income == calc.args[1]
            aca == getGovernmentRates.aca
            fpl == aca.federalPovertyLevel
            tiers == {t \in {150, 200, 250, 300} : income * 100 <= t * fpl}
            rate ==
                IF tiers # {}
                THEN aca.subsidyRates[CHOOSE t \in tiers : \A u \in tiers : t <= u]
                ELSE aca.subsidyRates[300]
                       - MulDiv(income * 100 - 300 * fpl, 19, fpl)
            eligible ==
                /\ income * 100 >= aca.incomeThresholds.minimumPercent * fpl
                /\ income * 100 <= aca.incomeThresholds.maximumPercent * fpl
        IN  eligible =>
               calc.result
                 = Max(0, 12 * aca.benchmarkPremiumMonthly
                            - MulDiv(income, rate, 100000))

\* an income of exactly 150 percent of the poverty level paid rate[150]:
\* 5,400 - 22,590 * 0.0285, a positive subsidy
C19_Witness ==
    /\ calc.fn = "calculateACASubsidy"
    /\ calc.args = <<2259000>>
    /\ calc.result = 540000 - MulDiv(2259000, 2850, 100000)
    /\ calc.result > 0

\* C20: calculateUnemploymentBenefits returns 0 when the base-period earnings
\* are below minimumEarnings or the rounded weekly amount is <= 0; otherwise
\* it returns weekly * duration with 1 <= weekly <= maxWeeklyBenefit and
\* minDurationWeeks <= duration <= maxDurationWeeks.
C20_BenefitIsWeeklyTimesDuration ==
    calc.fn = "calculateUnemploymentBenefits" =>
        LET rules == getGovernmentRates.unemployment
            basePeriod == calc.args[1] + calc.args[2]
            weekly == Min(WeeklyBenefitAmount(calc.args[1], calc.args[2]),
                          rules.maxWeeklyBenefit)
        IN  IF basePeriod < rules.minimumEarnings \/ weekly <= 0
            THEN calc.result = 0
            ELSE /\ weekly \in 1..rules.maxWeeklyBenefit
                 /\ \E duration \in rules.minDurationWeeks..rules.maxDurationWeeks :
                       calc.result = weekly * duration * 100

\* qualifying earnings below the cap were paid a whole number of weeks
C20_Witness ==
    /\ calc.fn = "calculateUnemploymentBenefits"
    /\ calc.args = <<2000000, 2000000>>
    /\ calc.result > 0
    /\ calc.result
         < GovernmentRates.unemployment.maxWeeklyBenefit
             * GovernmentRates.unemployment.maxDurationWeeks * 100

\* C21: when getBusinessRules throws, calculatePTOPayout raises no error and
\* returns floor(annualHours / 30) * hourlyRate, the same value as with the
\* configured divisor of 30.
C21_PTOFallback ==
    calc.fn = "calculatePTOPayout/catch" =>
        LET annualHours == calc.args[1]
            hourlyRate == calc.args[2]
        IN  /\ ~calc.threw
            /\ \E ptoHours \in 0..annualHours :
                  /\ 30 * ptoHours <= annualHours
                  /\ annualHours < 30 * (ptoHours + 1)
                  /\ calc.result = RoundDiv(ptoHours * hourlyRate, 100)
            /\ getBusinessRules.pto.hoursPerPTOHour = 30 =>
                  calc.result = calculatePTOPayout(annualHours, hourlyRate)

\* 800 hours at 27.45 were paid 26 PTO hours on the fallback path: 713.70
C21_Witness ==
    /\ calc.fn = "calculatePTOPayout/catch"
    /\ calc.args = <<800, 274500>>
    /\ calc.result = 71370

\* C29: for non-negative earnings and a quarterMultiplier of at most 4, the
\* second eligibility test (base-period earnings < highest quarter
\* * quarterMultiplier) never fails: every result of 0 comes from the
\* minimumEarnings test or from a weekly benefit <= 0.
C29_QuarterTestNeverDecides ==
    calc.fn = "calculateUnemploymentBenefits" =>
        LET rules == getGovernmentRates.unemployment
            basePeriod == calc.args[1] + calc.args[2]
            highestYear == Max(calc.args[1], calc.args[2])
            weekly == Min(WeeklyBenefitAmount(calc.args[1], calc.args[2]),
                          rules.maxWeeklyBenefit)
        IN  \* highest quarter = highestYear / 4, multiplier in tenths
            /\ \A tenths \in 0..40 : ~(40 * basePeriod < highestYear * tenths)
            /\ rules.quarterMultiplier <= 40
            /\ calc.result = 0 =>
                  (basePeriod < rules.minimumEarnings \/ weekly <= 0)

\* all the earnings in one year (base period = 4 * highest quarter, the
\* closest the second test comes to failing) still qualified
C29_Witness ==
    /\ calc.fn = "calculateUnemploymentBenefits"
    /\ calc.args[2] = 0
    /\ calc.args[1] >= GovernmentRates.unemployment.minimumEarnings
    /\ calc.result > 0

\* C22: in every year that ends with cash not depleted, the taxable balance
\* ends at exactly its prior balance times (1 + investmentReturn/100): it is
\* neither reduced by a shortfall nor increased by a surplus.
C22_TaxableOnlyGrowsWhileCashActive ==
    [][(YearStep /\ ~cashDepleted') =>
          /\ currentTaxable' = GrowPct(currentTaxable, formData.investmentReturn)
          /\ ~taxableDepleted']_vars

\* a first year whose shortfall cash absorbed, the taxable balance only grown
C22_Witness ==
    /\ pc = "loop"
    /\ Len(rows) = 1
    /\ ~cashDepleted
    /\ LastRow.shortfall > 0
    /\ currentTaxable > 0
    /\ currentTaxable
         = GrowPct(Cents(formData.taxableBalance), formData.investmentReturn)

\* C23: in a year that starts with cash not depleted, cash is first grown by
\* (1 + cashReturn/100) and only then compared with the shortfall: with g the
\* grown balance, ending cash is g - shortfall if 0 < shortfall <= g,
\* g + |shortfall| if shortfall <= 0, and 0 with cash depleted if shortfall > g.
C23_CashGrownThenCompared ==
    [][(YearStep /\ ~cashDepleted) =>
          LET g == GrowPct(currentCash, formData.cashReturn)
              shortfall == ThisYear.shortfall
          IN  /\ (shortfall > 0 /\ g >= shortfall) =>
                    (currentCash' = g - shortfall /\ ~cashDepleted')
              /\ shortfall <= 0 =>
                    (currentCash' = g + Abs(shortfall) /\ ~cashDepleted')
              /\ shortfall > g =>
                    (currentCash' = 0 /\ cashDepleted')]_vars

\* a first year in which cash earned a return and then paid a shortfall: the
\* ending balance is above the starting balance less the shortfall
C23_Witness ==
    /\ pc = "loop"
    /\ Len(rows) = 1
    /\ ~cashDepleted
    /\ formData.cashReturn > 0
    /\ LastRow.shortfall > 0
    /\ currentCash
         = GrowPct(Cents(formData.cashBalance), formData.cashReturn)
             - Cents(LastRow.shortfall)
    /\ currentCash > Cents(formData.cashBalance) - Cents(LastRow.shortfall)

\* C28: with starting cash and taxable balances >= 0 and return rates >= 0,
\* the ending cash balance and the ending taxable balance of every row of
\* every run are >= 0.
C28_BalancesNeverNegative ==
    (/\ formData.cashBalance >= 0
     /\ formData.taxableBalance >= 0
     /\ formData.cashReturn >= 0
     /\ formData.investmentReturn >= 0)
    => /\ currentCash >= 0
       /\ currentTaxable >= 0
       /\ \A i \in 1..Len(rows) :
             rows[i].cashBalance >= 0 /\ rows[i].taxableBalance >= 0
       /\ \A i \in 1..Len(results) :
             results[i].cashBalance >= 0 /\ results[i].taxableBalance >= 0

\* a first year whose shortfall was larger than cash and taxable together:
\* both ended at 0
C28_Witness ==
    /\ pc = "loop"
    /\ Len(rows) = 1
    /\ cashDepleted
    /\ taxableDepleted
    /\ LastRow.shortfall > 0
    /\ formData.taxableBalance > 0
    /\ LastRow.cashBalance = 0
    /\ LastRow.taxableBalance = 0

\* C24: the singleton starts with the example (or minimal) configuration;
\* when the asynchronous load of the main configuration succeeds, config
\* becomes the main configuration and configSource becomes 'main', only after
\* the constructor has installed the fallback, and the fallback never
\* overwrites it afterwards; when the load fails, config and configSource
\* keep their fallback values and no error propagates.
C24_MainConfigUpgrade ==
    /\ [](loaderPc = "constructed" =>
             /\ config = configSource
             /\ config \in {"example", "minimal", "main"}
             /\ (config = "main" <=> mainConfigLoad = "loaded"))
    /\ [](loaderPc # "constructed" => config = "unset")
    /\ [][(config = "main") => (config' = "main" /\ configSource' = "main")]_vars
    /\ [][(mainConfigLoad = "pending" /\ mainConfigLoad' = "failed") =>
            /\ config' = config
            /\ configSource' = configSource
            /\ config' \in {"example", "minimal"}
            /\ pc' = pc]_vars

\* the main configuration arrived after the dashboard had shown a projection
\* computed on the example configuration
C24_Witness ==
    /\ config = "main"
    /\ configSource = "main"
    /\ pc = "done"
    /\ resultsOf.source = "example"

\* C25: on its initial render, before any navigation click, App displays the
\* financial calculator component (currentView is 'landing' exactly until
\* the first click: no handler sets it back).
C25_InitialRenderShowsCalculator ==
    currentView = "landing" => renderView(currentView) = "Dashboard"

\* a text that is one whole number: blanks, an optional sign, one or more
\* digits, blanks
IsWholeNumberText(chars) ==
    \E first \in 1..Len(chars) : \E last \in first..Len(chars) :
        /\ \A i \in 1..Len(chars) : (i < first \/ i > last) => chars[i] = " "
        /\ chars[last] \in Digits
        /\ \A i \in (first + 1)..last : chars[i] \in Digits
        /\ chars[first] \in Digits \cup {"-"}

\* a text that starts, after blanks, with a number
StartsWithNumber(chars) ==
    \E k \in 1..Len(chars) :
        /\ \A i \in 1..(k - 1) : chars[i] = " "
        /\ \/ chars[k] \in Digits
           \/ chars[k] = "-" /\ k < Len(chars) /\ chars[k + 1] \in Digits

\* C26: a blur on a field that is empty, only whitespace or not a number
\* stores 0 in it; a blur on a field that holds a valid number changes
\* nothing; and getNumericValue reads an empty, null, undefined, NaN or
\* unparseable value as 0 (and a number as itself).
C26_BlurAndReadAsZero ==
    /\ calc.fn = "handleInputBlur" =>
          LET value == calc.args[1]
              valid == \/ value.type = "number"
                       \/ value.type = "string" /\ IsWholeNumberText(value.chars)
          IN  calc.result = IF valid THEN value ELSE Num(0)
    /\ calc.fn = "getNumericValue" =>
          LET fieldValue == calc.args[1]
          IN  /\ fieldValue.type \in {"null", "undefined", "NaN"} => calc.result = 0
              /\ (fieldValue.type = "string" /\ ~StartsWithNumber(fieldValue.chars))
                    => calc.result = 0
              /\ fieldValue.type = "number" => calc.result = fieldValue.value

\* the blur of a field holding "1a": not a number, so 0 is stored
C26_Witness ==
    /\ calc.fn = "handleInputBlur"
    /\ calc.args[1] = Str(<< "1", "a" >>)
    /\ calc.result = Num(0)

\* the sum of what getNumericValue reads in a set of fields of the form
RECURSIVE SumOfFields(_)
SumOfFields(fieldKeys) ==
    IF fieldKeys = {} THEN 0
    ELSE LET f == CHOOSE f \in fieldKeys : TRUE
         IN  getNumericValue(rawFormData[f]) + SumOfFields(fieldKeys \ {f})

\* the fields of the categories that satisfy a condition on key and frequency
FieldsOfFrequency(frequency) ==
    LET categories == getExpenseCategories(config)
    IN  UNION {{categories[c].fields[i] : i \in 1..Len(categories[c].fields)} :
                  c \in {c \in 1..Len(categories) : categories[c].frequency = frequency}}

FieldsOfCategory(categoryKey) ==
    LET categories == getExpenseCategories(config)
    IN  UNION {{categories[c].fields[i] : i \in 1..Len(categories[c].fields)} :
                  c \in {c \in 1..Len(categories) : categories[c].key = categoryKey}}

\* C27: updateAnnualExpenses adds the total of the 'essential' category to
\* essentialMonthly and the total of the 'nonEssential' category to
\* nonEssentialMonthly, not to essentialMonthly (totals of monthly categories,
\* compared in twelfths of a dollar once the effects have run).
C27_CategoriesKeptApart ==
    Quiescent =>
        /\ expenseTotals.essentialMonthly = 12 * SumOfFields(FieldsOfCategory(EssentialKey))
        /\ expenseTotals.nonEssentialMonthly
              = 12 * SumOfFields(FieldsOfCategory(NonEssentialKey))
                  + SumOfFields(FieldsOfCategory(AnnualKey))

====
